---- MODULE Spec2Model ----
(***************************************************************************)
(* Model of the reporting frontend of R-App (src/unnamed/part_002, the     *)
(* DOMContentLoaded controller, and src/unnamed/part_001, the store).      *)
(*                                                                         *)
(*   SpecRetry    one call of fetchWithRetry                               *)
(*   SpecDebounce debounceFilterUpdate and its timer                       *)
(*   Spec         handleDataLoad / handleDataLoadWithColumns with the      *)
(*                source cache, the view-state cache and the store         *)
(***************************************************************************)
EXTENDS Integers, Sequences, FiniteSets, TLC

VARIABLES
    call,                   \* the running fetchWithRetry call of SpecRetry
    now,                    \* wall clock in ticks (SpecDebounce)
    timers,                 \* pending setTimeout timers of debounceFilterUpdate
    filterDebounceTimer,    \* part_002:183
    pendingFilterUpdates,   \* part_002:184
    nextTimerId,            \* ids handed out by setTimeout
    inputValue,             \* value of the edited text filter
    edits,                  \* history of edits  [at, value, timer]
    applyCalls,             \* history of handleApplyFilters(1, false) calls made by the timer
    cancels,                \* history of cancelPendingFilterUpdates calls [timer]
    currentBlobDisplayName, \* store field, part_001:11
    blobSelectValue,        \* blobSelect.value
    dataSourceCache,        \* part_002:169
    viewStateCache,         \* part_002:173
    abortController,        \* store field, part_001:19 (0 is null)
    isLoading,              \* store field, part_001:4
    dataTable,              \* what #data-table shows
    saveTimers,             \* pending setTimeout(saveViewState, 500) timers
    loads,                  \* the invocations of handleDataLoad / handleDataLoadWithColumns
    restoreTimers,          \* pending setTimeout(..., 10) timers of restoreViewState
    filterInputs,           \* the manual ID-list fields and their batch checkboxes
    filterRuns,             \* the invocations of handleApplyFilters(1, false)
    requests,               \* history: the filter / export requests each run issued
    artifacts,              \* history: the chunks each run produced an export file for
    batchProcessCancelled,  \* part_002:2677
    batchModal,             \* batchProcessModal: [shown, status]
    downloadHandlers,       \* click listeners on batchDownloadBtn, in registration order
    tableRows,              \* the data rows of #data-table tbody, as indices into the result
    totalRows,              \* number of rows of the result the table was rendered from
    tableGen,               \* counts the renderings: which sentinel row is in the document
    sentinel,               \* the load-more-trigger-row: [present, hidden, content]
    chunkLoads,             \* the invocations of loadMoreChunk
    renders,                \* history: what each renderDataTable call showed
    page,                   \* which of #data-table and #filter-container the page has
    viewCalls,              \* history: the direct calls of saveViewState / restoreViewState,
                            \* [n, last]: how many were made, and the last one
    exportRun,              \* the invocation of handleExport: isExporting, its controller
    exportStatus,           \* statusMessage as the export functions leave it
    cancelNotifies,         \* handleCancelExport invocations awaiting /api/data/export-cancel
    healthNow,              \* time since waitForServer was called, in periods of checkInterval
    attempts,               \* waitForServer: attempts
    checkInterval,          \* waitForServer: TRUE while the interval is set
    probes,                 \* the checkServerReady calls in flight: [attempt, dueAt]
    server,                 \* what /api/health answers: "refused", "notfound" or "up"
    initCalls,              \* how often init() was called
    logEventSource,         \* "null" or "live": the EventSource of the log stream
    logStreamRetryCount,
    logRetryTimers,         \* pending timers set by onerror
    onlineTimers,           \* pending timers set by handleOnline
    wasOffline,             \* initNetworkMonitor: wasOffline
    logHistory,             \* history of the log stream since the last message
    lsClock,                \* Date.now(), in ms
    localStorageLastState,  \* localStorage under LAST_STATE_KEY
    countrySelectValue,     \* countrySelect.value
    cachedOptionMarks,      \* the options of blobSelect whose text carries the cache mark
    contextOffers,          \* the notifications on the page that offer to continue
    lastStateTimers,        \* pending timers of checkAndRestoreLastState
    lastHistory,            \* history of this page and of the one before it
    leftViews,              \* history: per source, the view shown when the user last left it
    lastReturn,             \* history: the last load that restored a view, and the view left
    statusPollInterval,     \* LauncherApp: TRUE once the status interval is set
    uptimePollInterval,     \* LauncherApp: 0 for null, or the id of an uptime interval
    serverRunning,          \* LauncherApp: ui.state.serverRunning
    activeIntervals,        \* the uptime intervals that are set and not cleared
    launcherCalls,          \* the launcher's API calls in flight
    mainServerRunning,      \* the launcher backend: the main server runs
    launcherHistory,        \* history of the launcher: counts, and what the claim asks
    authToken,              \* prod_peru script.js: authToken, "" for null
    currentUser,            \* prod_peru script.js: currentUser, "" for null
    isAuthenticated,        \* prod_peru script.js: isAuthenticated
    authStorage,            \* localStorage under TOKEN_KEY and USER_KEY
    authCalls,              \* the requests of the page in flight
    authPage,               \* the page: started, listeners set, main content shown
    authHistory             \* history of the page: counts, and the last auth event

retryVars    == <<call>>
debounceVars == <<now, timers, filterDebounceTimer, pendingFilterUpdates,
                  nextTimerId, inputValue, edits, applyCalls, cancels>>
loadVars == <<currentBlobDisplayName, blobSelectValue, dataSourceCache, viewStateCache,
              abortController, isLoading, dataTable, saveTimers, loads, restoreTimers>>
filterVars == <<filterInputs, filterRuns, requests, artifacts, batchProcessCancelled,
                batchModal, downloadHandlers>>
\* the variables of the parts modelled after the data loads
lazyVars == <<tableRows, totalRows, tableGen, sentinel, chunkLoads, renders>>
cacheVars == <<page, viewCalls>>
exportVars == <<exportRun, exportStatus, cancelNotifies>>
healthVars == <<healthNow, attempts, checkInterval, probes, server, initCalls>>
logVars == <<logEventSource, logStreamRetryCount, logRetryTimers, onlineTimers, wasOffline,
             logHistory>>
lastVars == <<lsClock, localStorageLastState, countrySelectValue, cachedOptionMarks,
              contextOffers, lastStateTimers, lastHistory>>
returnVars == <<leftViews, lastReturn>>
launcherVars == <<statusPollInterval, uptimePollInterval, serverRunning, activeIntervals,
                  launcherCalls, mainServerRunning, launcherHistory>>
authVars == <<authToken, currentUser, isAuthenticated, authStorage, authCalls, authPage,
              authHistory>>
\* the two other browser applications of the repository
sideVars == <<launcherVars, authVars>>
restVars == <<exportVars, healthVars, logVars, lastVars, returnVars, sideVars>>
moreVars == <<cacheVars, restVars>>
laterVars == <<filterVars, lazyVars, moreVars>>
\* what the data loads leave alone of them: they write the filter fields
loadFrame == <<filterRuns, requests, artifacts, batchProcessCancelled, batchModal,
               downloadHandlers, lazyVars, moreVars>>
vars == <<call, now, timers, filterDebounceTimer, pendingFilterUpdates,
          nextTimerId, inputValue, edits, applyCalls, cancels,
          currentBlobDisplayName, blobSelectValue, dataSourceCache, viewStateCache,
          abortController, isLoading, dataTable, saveTimers, loads, restoreTimers,
          filterInputs, filterRuns, requests, artifacts, batchProcessCancelled,
          batchModal, downloadHandlers,
          tableRows, totalRows, tableGen, sentinel, chunkLoads, renders,
          page, viewCalls,
          exportRun, exportStatus, cancelNotifies,
          healthNow, attempts, checkInterval, probes, server, initCalls,
          logEventSource, logStreamRetryCount, logRetryTimers, onlineTimers, wasOffline,
          logHistory,
          lsClock, localStorageLastState, countrySelectValue, cachedOptionMarks,
          contextOffers, lastStateTimers, lastHistory,
          leftViews, lastReturn,
          statusPollInterval, uptimePollInterval, serverRunning, activeIntervals,
          launcherCalls, mainServerRunning, launcherHistory,
          authToken, currentUser, isAuthenticated, authStorage, authCalls, authPage,
          authHistory>>

(***************************************************************************)
(* Bounds of the model.                                                    *)
(***************************************************************************)
MaxRetriesBound == 3
MaxEdits == 3
MaxLoads == 2
MaxTime == 700

(***************************************************************************)
(* Strings: String.prototype.includes.                                     *)
(***************************************************************************)
Includes(s, t) ==
    \E i \in 1..(Len(s) - Len(t) + 1) : SubSeq(s, i, i + Len(t) - 1) = t

(***************************************************************************)
(* fetchWithRetry (part_002:640-717).                                      *)
(***************************************************************************)
NoError == [name |-> "", message |-> ""]

\* initialDelay arguments used by the callers (default 1000; 1500; 2000)
InitialDelays == {1000, 1500, 2000}
\* options.timeout used by the callers; 0 stands for null / not given
Timeouts == {0, 5000}
\* response statuses the backend answers with
Statuses == {200, 404, 500, 503}

StatusText(status) ==
    CASE status = 200 -> "OK"
      [] status = 404 -> "Not Found"
      [] status = 500 -> "Internal Server Error"
      [] status = 503 -> "Service Unavailable"
      [] OTHER -> ""

\* response.ok
ResponseOk(status) == status >= 200 /\ status <= 299

\* part_002:682  new Error(`HTTP ${response.status}: ${response.statusText}`)
HttpError(status) ==
    [name |-> "Error",
     message |-> "HTTP " \o ToString(status) \o ": " \o StatusText(status)]

\* fetch() rejects with a TypeError on a network-level failure
NetworkErrors ==
    {[name |-> "TypeError", message |-> "Failed to fetch"]}

\* part_002:665  controller.abort(new Error(`Request timeout after ${timeoutMs/1000}s`)):
\* fetch rejects with the abort reason; an engine without abort reasons
\* rejects with its own AbortError instead.
TimeoutReason(timeoutMs) ==
    [name |-> "Error",
     message |-> "Request timeout after " \o ToString(timeoutMs \div 1000) \o "s"]

EngineAbortError == [name |-> "AbortError", message |-> "The user aborted a request."]

TimeoutRejections(timeoutMs) == {TimeoutReason(timeoutMs), EngineAbortError}

\* plausible slip: 5xx statuses are not recognised
IsRetryableError_No5xx(error) ==
    \/ error.name = "TypeError"
    \/ (error.name = "AbortError" /\ Includes(error.message, "timeout"))
    \/ Includes(error.message, "ERR_CONNECTION")

\* plausible slip: every HTTP error status is retried
IsRetryableError_AnyHttp(error) ==
    \/ error.name = "TypeError"
    \/ (error.name = "AbortError" /\ Includes(error.message, "timeout"))
    \/ Includes(error.message, "ERR_CONNECTION")
    \/ Includes(error.message, "HTTP ")

\* part_002:694-698
IsRetryableError(error) ==
    \/ error.name = "TypeError"
    \/ (error.name = "AbortError" /\ Includes(error.message, "timeout"))
    \/ Includes(error.message, "ERR_CONNECTION")
    \/ Includes(error.message, "HTTP 5")

\* plausible slip: linear instead of exponential backoff
BackoffDelay_Linear(initialDelay, attempt) == initialDelay * (attempt + 1)

\* part_002:704  initialDelay * Math.pow(2, attempt)
BackoffDelay(initialDelay, attempt) == initialDelay * (2 ^ attempt)

\* a call as it stands on entry of fetchWithRetry
NewCall(maxRetries, initialDelay, timeout) ==
    [maxRetries   |-> maxRetries,
     initialDelay |-> initialDelay,
     timeout      |-> timeout,
     attempt      |-> 0,
     pc           |-> "loop",
     lastError    |-> NoError,
     \* history, not program state
     fetches      |-> 0,        \* fetch() calls issued
     causes       |-> <<>>,     \* what ended each failed attempt
     waits        |-> <<>>,     \* delays handed to setTimeout at :712
     diagnostics  |-> <<>>,     \* attempts on which generateNetworkDiagnostics ran
     signalAborted |-> FALSE,   \* options.signal (the caller's token) aborted
     abortedInFlight |-> FALSE, \* ... while an attempt was in flight
     fetchesAtAbort  |-> 0]

\* part_002:656-677  loop head, new AbortController, fetch(url, {..., signal: controller.signal})
FetchAttempt(c) ==
    IF c.attempt <= c.maxRetries
    THEN [c EXCEPT !.pc = "fetching", !.fetches = @ + 1]
    ELSE [c EXCEPT !.pc = "thrown"]

\* part_002:686-713  the catch block
FetchCatch(c, error, cause) ==
    LET c1 == [c EXCEPT !.lastError = error,
                        !.causes = Append(@, [kind |-> cause.kind, status |-> cause.status,
                                              error |-> error])] IN
    IF c.attempt = c.maxRetries THEN [c1 EXCEPT !.pc = "thrown"]
    ELSE IF ~IsRetryableError(error) THEN [c1 EXCEPT !.pc = "thrown"]
    ELSE [c1 EXCEPT
            !.pc = "sleeping",
            !.waits = Append(@, BackoffDelay(c.initialDelay, c.attempt)),
            !.diagnostics = IF c.attempt = c.maxRetries - 1
                            THEN Append(@, c.attempt) ELSE @]

\* part_002:679-685  the fetch resolved with a response
FetchResolved(c, status) ==
    IF ResponseOk(status)
    THEN [c EXCEPT !.pc = "returned"]
    ELSE FetchCatch(c, HttpError(status), [kind |-> "http", status |-> status])

\* the fetch rejected with a network-level error
FetchRejected(c, error) ==
    FetchCatch(c, error, [kind |-> "network", status |-> 0])

\* part_002:664-666  the timeout timer aborted the attempt's own controller
FetchTimedOut(c, error) ==
    FetchCatch(c, error, [kind |-> "timeout", status |-> 0])

\* part_002:712  the backoff delay elapsed; the for loop increments attempt
BackoffElapsed(c) ==
    [c EXCEPT !.pc = "loop", !.attempt = @ + 1]

\* The caller aborts the token it passed as options.signal.  At part_002:670-672
\* `...options` is followed by `signal: controller.signal`, so the request never
\* observes options.signal: the abort changes nothing in the running call.
SignalAborted(c) ==
    [c EXCEPT !.signalAborted = TRUE,
              !.abortedInFlight = (c.pc = "fetching"),
              !.fetchesAtAbort = c.fetches]

CallRunning(c) == c.pc \in {"loop", "fetching", "sleeping"}

(***************************************************************************)
(* SpecRetry: one call with arguments drawn from the callers' values.      *)
(***************************************************************************)
NoSource == "null"
Sources == {"A", "B"}

\* an absent dataSourceCache entry; load is the invocation whose response the
\* entry was built from, displayData the invocation whose filter result it holds
NoEntry == [load |-> 0, displayData |-> 0]
\* the cleared table; load is the invocation whose filter result is rendered
EmptyTable == [src |-> NoSource, load |-> 0]
\* the filter panel with empty fields; no filter application was made
NoFilterInputs ==
    [skuHijo |-> <<>>, skuPadre |-> <<>>, ticket |-> <<>>, lineamiento |-> <<>>,
     extendSkuHijo |-> FALSE,
     batchProcessHijo |-> FALSE, batchProcessPadre |-> FALSE]

\* filterStates of a snapshot (part_002:1399-1404)
FilterStates(inputs) ==
    [skuHijo |-> inputs.skuHijo, skuPadre |-> inputs.skuPadre,
     ticket |-> inputs.ticket, lineamiento |-> inputs.lineamiento]

\* inputsAtSave is history: all the filter inputs as they stood at the save
NoSnapshot == [saved |-> FALSE, tableHTML |-> EmptyTable,
               filterStates |-> FilterStates(NoFilterInputs),
               appState |-> [currentBlobDisplayName |-> NoSource, isLoading |-> FALSE,
                             abortController |-> 0],
               inputsAtSave |-> NoFilterInputs]

LoadInit ==
    /\ currentBlobDisplayName = NoSource
    /\ blobSelectValue = NoSource
    /\ dataSourceCache = [s \in Sources |-> NoEntry]
    /\ viewStateCache = [s \in Sources |-> NoSnapshot]
    /\ abortController = 0
    /\ isLoading = FALSE
    /\ dataTable = EmptyTable
    /\ saveTimers = {}
    /\ loads = <<>>
    /\ restoreTimers = {}

FilterIdle ==
    /\ filterRuns = <<>>
    /\ requests = <<>>
    /\ artifacts = <<>>
    /\ batchProcessCancelled = FALSE
    /\ batchModal = [shown |-> FALSE, status |-> "processing"]
    /\ downloadHandlers = <<>>

\* the table before anything was rendered into it
NoSentinel == [present |-> FALSE, hidden |-> FALSE, content |-> "trigger"]

LazyIdle ==
    /\ tableRows = <<>>
    /\ totalRows = 0
    /\ tableGen = 0
    /\ sentinel = NoSentinel
    /\ chunkLoads = <<>>
    /\ renders = <<>>

\* the page as it is served: both containers are there
FullPage == [table |-> TRUE, filterContainer |-> TRUE]

\* no direct call was made
NoViewCall ==
    [n |-> 0,
     last |-> [op |-> "none", blobName |-> "null", page |-> FullPage, raised |-> FALSE,
               ok |-> FALSE, threw |-> FALSE]]

CacheIdle ==
    /\ page = FullPage
    /\ viewCalls = NoViewCall

\* no export was asked for
NoExport == [n |-> 0, pc |-> "idle", isExporting |-> FALSE, cancelled |-> FALSE]

ExportIdle ==
    /\ exportRun = NoExport
    /\ exportStatus = "ready"
    /\ cancelNotifies = 0

\* the page after the server was found: the interval is cleared
HealthIdle ==
    /\ healthNow = 0
    /\ attempts = 0
    /\ checkInterval = FALSE
    /\ probes = {}
    /\ server = "up"
    /\ initCalls = 0

\* nothing has happened on the log stream since it was connected
NoLogHistory ==
    [messages |-> 0, offlines |-> 0,
     delays |-> <<>>,           \* the delays onerror asked for, in order
     retries |-> 0,             \* reconnections scheduled by onerror
     reconnects |-> 0,          \* connectToLogStream calls after a failure
     failed |-> FALSE,          \* the stream has failed
     lastError |-> [countBefore |-> 0, scheduled |-> FALSE]]

\* part_002:4617  init() has connected the log stream
LogIdle ==
    /\ logEventSource = "live"
    /\ logStreamRetryCount = 0
    /\ logRetryTimers = 0
    /\ onlineTimers = 0
    /\ wasOffline = FALSE
    /\ logHistory = NoLogHistory

\* localStorage without the key
NoStored ==
    [stored |-> FALSE, country |-> "", source |-> NoSource,
     sourceDisplayName |-> [name |-> NoSource, cached |-> FALSE], timestamp |-> 0]

\* restoreLastState has not run on this page
NoRestore == [ran |-> FALSE, stale |-> FALSE, offered |-> FALSE, removed |-> FALSE,
              lastState |-> NoStored]

NoLastHistory ==
    [pageStarts |-> 0, checks |-> 0,
     sessionStart |-> 0,        \* lsClock when this page started
     loadClicks |-> 0,          \* clicks on the load button, on this page
     continueClicks |-> 0,      \* clicks on the action of an offer, on this page
     prev |-> [source |-> NoSource, fresh |-> FALSE],   \* the page before this one
     lastRestore |-> NoRestore]

\* a page that has just started, with nothing stored
LastIdle ==
    /\ lsClock = 0
    /\ localStorageLastState = NoStored
    /\ countrySelectValue = ""
    /\ cachedOptionMarks = {}
    /\ contextOffers = {}
    /\ lastStateTimers = 0
    /\ lastHistory = NoLastHistory

\* the user has left no source
NeverLeft == [left |-> FALSE, dataTable |-> EmptyTable, filterInputs |-> NoFilterInputs]

ReturnIdle ==
    /\ leftViews = [s \in Sources |-> NeverLeft]
    /\ lastReturn = [load |-> 0, view |-> NeverLeft]

\* launcher.js:7-19  the LauncherApp as its constructor leaves it, the main
\* server stopped
NoLauncherHistory ==
    [toggles |-> 0, statusPolls |-> 0, uptimePolls |-> 0, intervalsSet |-> 0,
     monitoring |-> FALSE, strayPoll |-> FALSE]

LauncherIdle ==
    /\ statusPollInterval = FALSE
    /\ uptimePollInterval = 0
    /\ serverRunning = FALSE
    /\ activeIntervals = {}
    /\ launcherCalls = {}
    /\ mainServerRunning = FALSE
    /\ launcherHistory = NoLauncherHistory

\* script.js:4-7  the page of prod_peru before DOMContentLoaded, nothing stored
NoStoredAuth == [token |-> "", user |-> ""]
NoAuthPage == [started |-> FALSE, listeners |-> FALSE, mainContent |-> FALSE]
NoAuthHistory == [loads |-> 0, sends |-> 0, last |-> "none"]

AuthIdle ==
    /\ authToken = ""
    /\ currentUser = ""
    /\ isAuthenticated = FALSE
    /\ authStorage = NoStoredAuth
    /\ authCalls = {}
    /\ authPage = NoAuthPage
    /\ authHistory = NoAuthHistory

SideIdle ==
    /\ LauncherIdle
    /\ AuthIdle

RestIdle ==
    /\ ExportIdle
    /\ HealthIdle
    /\ LogIdle
    /\ LastIdle
    /\ ReturnIdle
    /\ SideIdle

MoreIdle ==
    /\ CacheIdle
    /\ RestIdle

LaterInit ==
    /\ filterInputs = NoFilterInputs
    /\ FilterIdle
    /\ LazyIdle
    /\ MoreIdle

DebounceInit ==
    /\ now = 0
    /\ timers = {}
    /\ filterDebounceTimer = 0
    /\ pendingFilterUpdates = {}
    /\ nextTimerId = 1
    /\ inputValue = [f \in {"skuHijo", "ticket"} |-> ""]
    /\ edits = <<>>
    /\ applyCalls = <<>>
    /\ cancels = <<>>

RetryInit ==
    /\ call \in {NewCall(m, d, t) : m \in 0..MaxRetriesBound, d \in InitialDelays, t \in Timeouts}
    /\ DebounceInit
    /\ LoadInit
    /\ LaterInit

RetryAttempt ==
    /\ call.pc = "loop"
    /\ call' = FetchAttempt(call)
    /\ UNCHANGED <<debounceVars, loadVars, laterVars>>

RetryResponse ==
    /\ call.pc = "fetching"
    /\ \E status \in Statuses : call' = FetchResolved(call, status)
    /\ UNCHANGED <<debounceVars, loadVars, laterVars>>

RetryNetworkFailure ==
    /\ call.pc = "fetching"
    /\ \E error \in NetworkErrors : call' = FetchRejected(call, error)
    /\ UNCHANGED <<debounceVars, loadVars, laterVars>>

RetryTimeout ==
    /\ call.pc = "fetching"
    /\ call.timeout > 0
    /\ \E error \in TimeoutRejections(call.timeout) : call' = FetchTimedOut(call, error)
    /\ UNCHANGED <<debounceVars, loadVars, laterVars>>

RetryBackoffElapsed ==
    /\ call.pc = "sleeping"
    /\ call' = BackoffElapsed(call)
    /\ UNCHANGED <<debounceVars, loadVars, laterVars>>

RetrySignalAborted ==
    /\ CallRunning(call)
    /\ ~call.signalAborted
    /\ call' = SignalAborted(call)
    /\ UNCHANGED <<debounceVars, loadVars, laterVars>>

RetryNext ==
    \/ RetryAttempt
    \/ RetryResponse
    \/ RetryNetworkFailure
    \/ RetryTimeout
    \/ RetryBackoffElapsed
    \/ RetrySignalAborted

SpecRetry == RetryInit /\ [][RetryNext]_vars

(***************************************************************************)
(* Properties of fetchWithRetry, checked under SpecRetry.                  *)
(***************************************************************************)
LastCause(c) == c.causes[Len(c.causes)]

\* the attempt failed at network level or with a 5xx status
TransientCause(x) ==
    \/ x.kind = "network"
    \/ (x.kind = "http" /\ x.status >= 500 /\ x.status <= 599)

\* the attempt got a response with an error status that is not 5xx
NonTransientCause(x) ==
    x.kind = "http" /\ ~(x.status >= 500 /\ x.status <= 599)

\* C4 (as claimed): once the caller's token is aborted while an attempt is in
\* flight, no further attempt is started and the call can only end by throwing
\* a cancellation error (AbortError).
C4_CallerAbortEndsCall ==
    call.abortedInFlight =>
        /\ call.fetches = call.fetchesAtAbort
        /\ call.pc \in {"fetching", "thrown"}
        /\ (call.pc = "thrown" => call.lastError.name = "AbortError")

\* C6 (as claimed): an attempt ended by the call's own timeout timer while
\* fewer than maxRetries retries have been made does not end the call.
C6_TimeoutIsRetried ==
    (/\ Len(call.causes) > 0
     /\ LastCause(call).kind = "timeout"
     /\ Len(call.causes) <= call.maxRetries) => call.pc /= "thrown"

\* C7: no call issues more than maxRetries + 1 attempts, and a call whose
\* every attempt failed at network level or with a 5xx status ends only after
\* exactly maxRetries + 1 attempts, throwing the error of the last attempt.
C7_AttemptsExactlyMaxRetriesPlusOne ==
    /\ call.fetches <= call.maxRetries + 1
    /\ (/\ call.pc = "thrown"
        /\ \A i \in 1..Len(call.causes) : TransientCause(call.causes[i]))
       => /\ call.fetches = call.maxRetries + 1
          /\ Len(call.causes) = call.maxRetries + 1
          /\ call.lastError = LastCause(call).error

C7_Witness ==
    /\ call.pc = "thrown"
    /\ call.maxRetries = 2
    /\ call.fetches = 3
    /\ \A i \in 1..Len(call.causes) : TransientCause(call.causes[i])
    /\ \E i \in 1..Len(call.causes) : call.causes[i].kind = "network"
    /\ \E i \in 1..Len(call.causes) : call.causes[i].kind = "http"

\* C8: an attempt answered with a non-5xx error status ends the call at once:
\* the call has thrown that error, no delay was waited after it and no attempt
\* follows it; when it is the first attempt the call made exactly one attempt
\* and waited no delay at all.
C8_NonTransientFailsImmediately ==
    /\ (Len(call.causes) > 0 /\ NonTransientCause(LastCause(call)))
       => /\ call.pc = "thrown"
          /\ call.fetches = Len(call.causes)
          /\ Len(call.waits) = Len(call.causes) - 1
          /\ call.lastError = LastCause(call).error
    /\ (Len(call.causes) > 0 /\ NonTransientCause(call.causes[1]))
       => /\ call.fetches = 1
          /\ call.waits = <<>>

C8_Witness ==
    /\ call.pc = "thrown"
    /\ call.maxRetries = 3
    /\ Len(call.causes) = 1
    /\ call.causes[1].kind = "http"
    /\ call.causes[1].status = 404
    /\ call.fetches = 1

\* C9: the k-th wait of a call (between attempt k-1 and attempt k, attempts
\* counted from 0) is initialDelay * 2^(k-1), each wait twice the one before.
C9_WaitsDouble ==
    /\ \A k \in 1..Len(call.waits) :
          /\ call.waits[k] = call.initialDelay * (2 ^ (k - 1))
          /\ (k > 1 => call.waits[k] = 2 * call.waits[k - 1])
    /\ (call.pc = "sleeping" => Len(call.waits) = call.attempt + 1)
    /\ (call.pc /= "sleeping" /\ CallRunning(call) => Len(call.waits) = call.attempt)

C9_Witness ==
    /\ Len(call.waits) = 3
    /\ call.initialDelay = 1500
    /\ call.waits = <<1500, 3000, 6000>>
    /\ call.pc = "fetching"

\* C10 (as claimed): a call that has thrown after using up its retry budget
\* has emitted a diagnostic record, and emitted it on its final failed attempt
\* (attempt index maxRetries), not on an earlier one.
C10_DiagnosticOnFinalAttempt ==
    (call.pc = "thrown" /\ call.fetches = call.maxRetries + 1)
    => /\ call.diagnostics /= <<>>
       /\ \A i \in 1..Len(call.diagnostics) : call.diagnostics[i] = call.maxRetries

(***************************************************************************)
(* Debouncing of text-filter edits (part_002:181-184, 1640-1705).          *)
(* Time is counted in milliseconds.  A timer is a record [id, due]; the    *)
(* event loop runs a timer callback when its delay has elapsed, and before *)
(* any input event that arrives at or after that instant.                  *)
(***************************************************************************)
DEBOUNCE_DELAY == 300

FilterTypes == {"skuHijo", "ticket"}
Values == {"1001", "1001 1002"}
\* amounts by which the clock advances between events
Steps == {100, 200}

\* clearTimeout(id)
ClearTimeout(ts, id) == {t \in ts : t.id /= id}

\* plausible slip: the pending timer is left running
CancelPreviousTimer_Keep(ts, timerId) == ts

\* part_002:1642-1644  if (filterDebounceTimer) clearTimeout(filterDebounceTimer)
CancelPreviousTimer(ts, timerId) ==
    IF timerId /= 0 THEN ClearTimeout(ts, timerId) ELSE ts

TimerDue(t) == now >= t.due

\* part_002:1640-1664  an input event changes a text filter and the handler
\* calls debounceFilterUpdate(filterType)
debounceFilterUpdate(filterType, value) ==
    /\ Len(edits) < MaxEdits
    /\ \A t \in timers : ~TimerDue(t)
    /\ inputValue[filterType] /= value
    /\ inputValue' = [inputValue EXCEPT ![filterType] = value]
    /\ pendingFilterUpdates' = pendingFilterUpdates \cup {filterType}
    /\ timers' = CancelPreviousTimer(timers, filterDebounceTimer)
                    \cup {[id |-> nextTimerId, due |-> now + DEBOUNCE_DELAY]}
    /\ filterDebounceTimer' = nextTimerId
    /\ nextTimerId' = nextTimerId + 1
    /\ edits' = Append(edits, [at |-> now, filterType |-> filterType,
                               value |-> value, timer |-> nextTimerId])
    /\ UNCHANGED <<now, applyCalls, cancels>>

\* part_002:1653-1663  the timer callback: handleApplyFilters(1, false), which
\* builds its payload from the inputs as they are when it runs
DebounceTimerFires ==
    \E t \in timers :
        /\ TimerDue(t)
        /\ timers' = timers \ {t}
        /\ pendingFilterUpdates' = {}
        /\ applyCalls' = Append(applyCalls, [at |-> now, timer |-> t.id,
                                             value |-> inputValue])
        /\ UNCHANGED <<now, filterDebounceTimer, nextTimerId, inputValue, edits, cancels>>

\* part_002:1696-1705  cancelPendingFilterUpdates (a source change, a clear of
\* the manual inputs)
cancelPendingFilterUpdates ==
    /\ filterDebounceTimer /= 0
    /\ \A t \in timers : ~TimerDue(t)
    /\ timers' = ClearTimeout(timers, filterDebounceTimer)
    /\ filterDebounceTimer' = 0
    /\ pendingFilterUpdates' = {}
    /\ cancels' = Append(cancels, [timer |-> filterDebounceTimer])
    /\ UNCHANGED <<now, nextTimerId, inputValue, edits, applyCalls>>

\* time passes; it does not pass the due time of a pending timer
Tick ==
    \E d \in Steps :
        /\ now + d <= MaxTime
        /\ \A t \in timers : now + d <= t.due
        /\ now' = now + d
        /\ UNCHANGED <<timers, filterDebounceTimer, pendingFilterUpdates,
                       nextTimerId, inputValue, edits, applyCalls, cancels>>

DebounceEdit ==
    /\ \E f \in FilterTypes, v \in Values : debounceFilterUpdate(f, v)
    /\ UNCHANGED <<retryVars, loadVars, laterVars>>

DebounceFire == DebounceTimerFires /\ UNCHANGED <<retryVars, loadVars, laterVars>>

DebounceCancel == cancelPendingFilterUpdates /\ UNCHANGED <<retryVars, loadVars, laterVars>>

DebounceTick == Tick /\ UNCHANGED <<retryVars, loadVars, laterVars>>

DebounceNext ==
    \/ DebounceEdit
    \/ DebounceFire
    \/ DebounceCancel
    \/ DebounceTick

SpecDebounceInit ==
    /\ call = NewCall(0, 1000, 0)
    /\ DebounceInit
    /\ LoadInit
    /\ LaterInit

SpecDebounce == SpecDebounceInit /\ [][DebounceNext]_vars

(***************************************************************************)
(* Properties of the debounce, checked under SpecDebounce.                 *)
(***************************************************************************)
\* edit k is the last edit of its burst: no edit follows it within the delay
LastOfBurst(k) ==
    k = Len(edits) \/ edits[k + 1].at - edits[k].at >= DEBOUNCE_DELAY

\* the timer of edit k was cancelled by cancelPendingFilterUpdates
CancelledEdit(k) == \E i \in 1..Len(cancels) : cancels[i].timer = edits[k].timer

\* the inputs as they stood right after edit k
InputsAfterEdit(k) ==
    [f \in FilterTypes |->
        IF \E j \in 1..k : edits[j].filterType = f
        THEN edits[CHOOSE j \in 1..k : /\ edits[j].filterType = f
                                       /\ \A i \in (j + 1)..k : edits[i].filterType /= f].value
        ELSE ""]

State ==
    [currentBlobDisplayName |-> currentBlobDisplayName,
     blobSelectValue |-> blobSelectValue,
     dataSourceCache |-> dataSourceCache,
     viewStateCache  |-> viewStateCache,
     abortController |-> abortController,
     isLoading  |-> isLoading,
     dataTable  |-> dataTable,
     saveTimers |-> saveTimers,
     loads      |-> loads,
     restoreTimers |-> restoreTimers,
     filterInputs  |-> filterInputs,
     page          |-> page]        \* read only

Commit(st) ==
    /\ currentBlobDisplayName' = st.currentBlobDisplayName
    /\ blobSelectValue' = st.blobSelectValue
    /\ dataSourceCache' = st.dataSourceCache
    /\ viewStateCache'  = st.viewStateCache
    /\ abortController' = st.abortController
    /\ isLoading'  = st.isLoading
    /\ dataTable'  = st.dataTable
    /\ saveTimers' = st.saveTimers
    /\ loads'      = st.loads
    /\ restoreTimers' = st.restoreTimers
    /\ filterInputs'  = st.filterInputs

Terminal == {"done", "restored", "failed", "cancelled"}

\* the history of a call is dropped in the records of loads
Forget(c) ==
    [c EXCEPT !.fetches = 0, !.causes = <<>>, !.waits = <<>>, !.diagnostics = <<>>,
              !.signalAborted = FALSE, !.abortedInFlight = FALSE, !.fetchesAtAbort = 0]

\* response statuses the backend answers a load with
LoadStatuses == {200, 404, 503}

IdleCall == [NewCall(0, 1000, 0) EXCEPT !.pc = "returned"]

\* part_002:2203-2210 / 5562-5569  fetchWithRetry(settings, {signal, timeout}, 2, 1500)
SettingsCall(entry) ==
    NewCall(2, 1500, IF entry = "handleDataLoad" THEN 60000 ELSE 15000)

\* part_002:2232-2240 / 5587-5598  fetchWithRetry(load, {signal, timeout: null}, 0)
DataCall == NewCall(0, 1000, 0)

\* getState() as captured by saveViewState (part_002:1406)
AppState(st) ==
    [currentBlobDisplayName |-> st.currentBlobDisplayName,
     isLoading |-> st.isLoading,
     abortController |-> st.abortController]

\* part_002:1387 / 1426  if (!table || !filterContainer)
ContainersMissing(pg) == ~pg.table \/ ~pg.filterContainer

\* plausible slip: the snapshot is stored whatever the page holds
saveViewState_NoGuard(st, blobName) ==
    [st EXCEPT !.viewStateCache[blobName] =
        [saved |-> TRUE, tableHTML |-> st.dataTable,
         filterStates |-> FilterStates(st.filterInputs),
         appState |-> AppState(st),
         inputsAtSave |-> st.filterInputs]]

\* part_002:1381-1413
saveViewState(st, blobName) ==
    IF ContainersMissing(st.page) THEN st
    ELSE [st EXCEPT !.viewStateCache[blobName] =
            [saved |-> TRUE, tableHTML |-> st.dataTable,
             filterStates |-> FilterStates(st.filterInputs),
             appState |-> AppState(st),
             inputsAtSave |-> st.filterInputs]]

\* part_002:1457-1465
clearViewStateCache(st, blobName) ==
    [st EXCEPT !.viewStateCache[blobName] = NoSnapshot]

\* part_002:1928-1968  the four text fields and the extend checkbox are cleared
clearManualFilterInputs(st) ==
    [st EXCEPT !.filterInputs.skuHijo = <<>>,
               !.filterInputs.skuPadre = <<>>,
               !.filterInputs.ticket = <<>>,
               !.filterInputs.lineamiento = <<>>,
               !.filterInputs.extendSkuHijo = FALSE]

\* How a restore that found its snapshot and the containers can end: it puts
\* everything back, or an exception is raised inside its try block (by
\* setState, after the markup was put back and the timer was set).
RestoreOutcomes == {"ok", "threw"}

\* what restoreViewState gives back: the value it returns, whether an
\* exception left it, and the state it leaves
Returned(value, st) == [ok |-> value, threw |-> FALSE, st |-> st]

\* plausible slip: no look at the containers and no try block, so that the
\* TypeError of writing innerHTML of null leaves the function
restoreViewState_Unchecked(st, blobName, p, outcome) ==
    LET cachedState == st.viewStateCache[blobName] IN
    IF ~cachedState.saved THEN Returned(FALSE, st)
    ELSE IF ContainersMissing(st.page) THEN [ok |-> FALSE, threw |-> TRUE, st |-> st]
    ELSE Returned(TRUE, [st EXCEPT !.dataTable = cachedState.tableHTML])

\* part_002:1415-1455  p is the invocation that restores.  Everything after
\* the look-up of the snapshot is inside try; the catch returns false.
restoreViewState(st, blobName, p, outcome) ==
    LET cachedState == st.viewStateCache[blobName]
        markup == [st EXCEPT !.dataTable = cachedState.tableHTML,
                             !.restoreTimers =
                                 @ \cup {[load |-> p,
                                          filterStates |-> cachedState.filterStates]}]
    IN
    IF ~cachedState.saved THEN Returned(FALSE, st)
    ELSE IF ContainersMissing(st.page) THEN Returned(FALSE, st)
    ELSE IF outcome = "threw" THEN Returned(FALSE, markup)
    ELSE Returned(TRUE,
                  [markup EXCEPT
                     !.currentBlobDisplayName = cachedState.appState.currentBlobDisplayName,
                     !.isLoading = cachedState.appState.isLoading,
                     !.abortController = cachedState.appState.abortController])

\* plausible slip: an entry that exists is kept instead of being replaced
StoreLoaded_KeepExisting(cache, name, p) ==
    IF cache[name].load /= 0 THEN cache
    ELSE [cache EXCEPT ![name] = [load |-> p, displayData |-> 0]]

\* part_002:2270-2291 / 5616-5636  dataSourceCache[currentBlobDisplayName] = {...}
StoreLoaded(cache, name, p) ==
    [cache EXCEPT ![name] = [load |-> p, displayData |-> 0]]

\* existingController.abort() (part_002:2114-2121 / 5496-5503): the token of the
\* invocation that created the controller is aborted.  Its calls were given the
\* token as options.signal, which fetchWithRetry does not hand to fetch (see
\* SignalAborted), so they run on.
AbortExisting(ls, controller) ==
    [q \in 1..Len(ls) |->
        IF q = controller
        THEN [ls[q] EXCEPT !.aborted = TRUE,
                           !.cancelledInFlight = @ \/ (ls[q].pc \notin Terminal)]
        ELSE ls[q]]

\* what an invocation records when it is entered
NewLoad(st, entry, cur, target, pc) ==
    LET n == Len(st.loads)
        same == {q \in 1..n : st.loads[q].cur = target /\ st.loads[q].target = target}
        prev == IF same = {} THEN 0 ELSE CHOOSE q \in same : \A r \in same : r <= q
    IN
    [entry  |-> entry,
     cur    |-> cur,            \* currentBlobDisplayName destructured on entry
     target |-> target,         \* targetBlobName
     pc     |-> pc,
     call   |-> IF pc = "settings" THEN FetchAttempt(SettingsCall(entry)) ELSE IdleCall,
     aborted |-> FALSE,         \* controller.signal.aborted
     cancelledInFlight |-> FALSE,   \* history: it was running when its controller was aborted
     applySource |-> NoSource,  \* sourceName of its handleApplyFilters
     \* history
     superseded |-> {q \in 1..n : /\ st.loads[q].cur = cur
                                  /\ st.loads[q].pc \in {"settings", "data"}},
     after  |-> IF /\ cur = target
                   /\ \A q \in 1..n : st.loads[q].pc \in Terminal
                   /\ prev /= 0
                   /\ st.loads[prev].pc = "done"
                THEN prev ELSE 0,
     entryAtStart |-> st.dataSourceCache[target],
     entryLeft |-> FALSE,       \* an entry for cur was left when it failed
     networkRequest |-> (pc = "settings"),   \* it sent a request
     snapshot |-> NoSnapshot,   \* the snapshot its restore was made from
     restoreFailed |-> FALSE,   \* its restore returned false
     snapshotLeft |-> FALSE,    \* a snapshot for target was left after the failed restore
     tableAfterRestore |-> EmptyTable,
     restoreFinished |-> FALSE, \* the timer of its restore has run
     inputsAfterRestore |-> NoFilterInputs]

\* part_002:2098-2150  the cold path of handleDataLoad up to its first await
StartNetworkLoad(st, cur, target) ==
    LET st0 == IF cur /= NoSource /\ cur /= target THEN saveViewState(st, cur) ELSE st
        st1 == clearManualFilterInputs(st0)
        p   == Len(st.loads) + 1
    IN
    [st1 EXCEPT !.dataTable = EmptyTable,
                !.abortController = p,
                !.isLoading = TRUE,
                !.loads = Append(AbortExisting(st.loads, st.abortController),
                                 NewLoad(st, "handleDataLoad", cur, target, "settings"))]

\* part_002:2068-2150  outcome is how the restore ends, if one is attempted
handleDataLoad(st, outcome) ==
    LET cur    == st.currentBlobDisplayName
        target == IF st.blobSelectValue /= NoSource THEN st.blobSelectValue ELSE cur
        p      == Len(st.loads) + 1
    IN
    IF st.dataSourceCache[target].load /= 0 /\ st.viewStateCache[target].saved
    THEN LET r == restoreViewState(st, target, p, outcome) IN
         IF r.ok
         THEN [r.st EXCEPT !.loads = Append(st.loads,
                   [NewLoad(st, "handleDataLoad", cur, target, "restored")
                       EXCEPT !.snapshot = st.viewStateCache[target],
                              !.tableAfterRestore = r.st.dataTable])]
         ELSE LET st1 == clearViewStateCache(r.st, target)
                  st2 == StartNetworkLoad(st1, st1.currentBlobDisplayName, target)
              IN [st2 EXCEPT !.loads[p].restoreFailed = TRUE,
                             !.loads[p].snapshotLeft = st2.viewStateCache[target].saved]
    ELSE StartNetworkLoad(st, cur, target)

\* part_002:5471-5520
handleDataLoadWithColumns(st) ==
    LET cur == st.currentBlobDisplayName
        p   == Len(st.loads) + 1
        st1 == clearManualFilterInputs(st)
    IN
    [st1 EXCEPT !.dataTable = EmptyTable,
               !.abortController = p,
               !.isLoading = TRUE,
               !.loads = Append(AbortExisting(st.loads, st.abortController),
                                NewLoad(st, "handleDataLoadWithColumns", cur, cur, "settings"))]

\* part_002:2315-2340 and 2407-2426 / 5646-5663 and 5693-5700
\* the rest of the try block after handleApplyFilters, then finally
LoadCompleted(st, p) ==
    LET l == st.loads[p] IN
    IF l.entry = "handleDataLoad"
    THEN [st EXCEPT !.saveTimers = @ \cup {[blobName |-> l.target, load |-> p]},
                    !.isLoading = FALSE,
                    !.abortController = 0,
                    !.loads[p].pc = "done",
                    !.loads[p].call = IdleCall]
    ELSE [st EXCEPT !.saveTimers = @ \cup {[blobName |-> l.cur, load |-> p]},
                    !.isLoading = FALSE,
                    !.loads[p].pc = "done",
                    !.loads[p].call = IdleCall]

\* part_002:2342-2426 / 5667-5700  catch and finally
LoadCatch(st, p, error) ==
    LET l  == st.loads[p]
        cancelled == error.name = "AbortError"
        st1 == [st EXCEPT !.loads[p].pc = IF cancelled THEN "cancelled" ELSE "failed",
                          !.loads[p].call = IdleCall]
        st2 == IF l.entry = "handleDataLoad"
               THEN [st1 EXCEPT !.dataSourceCache[l.cur] =
                                    IF cancelled THEN @ ELSE NoEntry,
                                !.isLoading = FALSE,
                                !.abortController = 0]
               ELSE [st1 EXCEPT !.isLoading = IF cancelled THEN @ ELSE FALSE]
    IN
    [st2 EXCEPT !.loads[p].entryLeft = (~cancelled /\ st2.dataSourceCache[l.cur].load /= 0)]

\* part_002:2216-2240  the settings arrived; the data request is issued
SettingsLoaded(st, p) ==
    [st EXCEPT !.loads[p].pc = "data", !.loads[p].call = FetchAttempt(DataCall)]

\* part_002:2246-2313 and 2478-2490  the payload arrived: validation, the
\* cache entry, and handleApplyFilters(1, true) up to its first await
DataLoaded(st, p, hasColumns) ==
    LET l == st.loads[p] IN
    IF ~hasColumns
    THEN LoadCatch(st, p, [name |-> "Error",
                           message |-> "El formato de datos recibido es invalido (columns)"])
    ELSE LET st1 == [st EXCEPT !.dataSourceCache = StoreLoaded(@, l.cur, p)]
             sourceName == st1.currentBlobDisplayName
         IN
         IF sourceName = NoSource \/ st1.dataSourceCache[sourceName].load = 0
         THEN LoadCompleted(st1, p)
         ELSE [st1 EXCEPT !.loads[p].pc = "filterVisibility",
                          !.loads[p].applySource = sourceName,
                          !.loads[p].call = IdleCall]

\* One step of a running call: the relation the actions of SpecRetry take.
CallSteps(c) ==
    CASE c.pc = "loop"     -> {FetchAttempt(c)}
      [] c.pc = "sleeping" -> {BackoffElapsed(c)}
      [] c.pc = "fetching" ->
            {FetchResolved(c, status) : status \in LoadStatuses}
            \cup {FetchRejected(c, error) : error \in NetworkErrors}
            \cup (IF c.timeout > 0
                  THEN {FetchTimedOut(c, error) : error \in TimeoutRejections(c.timeout)}
                  ELSE {})
      [] OTHER -> {}

\* The ways a call can end.  The attempts and delays of a call touch nothing
\* but the call itself, so an invocation of a load takes its call in one step,
\* at any time after the call was started.
RECURSIVE CallOutcomes(_)
CallOutcomes(c) ==
    IF ~CallRunning(c) THEN {Forget(c)}
    ELSE UNION {CallOutcomes(c2) : c2 \in CallSteps(c)}

\* the fetchWithRetry call of invocation p ended as c
CallEnded(st, p, c, hasColumns) ==
    IF c.pc = "returned"
    THEN IF st.loads[p].pc = "settings" THEN SettingsLoaded(st, p)
         ELSE DataLoaded(st, p, hasColumns)
    ELSE LoadCatch(st, p, c.lastError)


\* the user clicks the load button (or another caller runs handleDataLoad)
\* A user action does not fall into the 10 ms between a restore and its timer.
LoadRequested ==
    /\ Len(loads) < MaxLoads
    /\ restoreTimers = {}
    /\ currentBlobDisplayName /= NoSource \/ blobSelectValue /= NoSource
    /\ \E outcome \in RestoreOutcomes : Commit(handleDataLoad(State, outcome))
    /\ UNCHANGED <<retryVars, debounceVars, loadFrame>>

\* the user confirms the column selection
LoadWithColumnsRequested ==
    /\ Len(loads) < MaxLoads
    /\ restoreTimers = {}
    /\ currentBlobDisplayName /= NoSource
    /\ Commit(handleDataLoadWithColumns(State))
    /\ UNCHANGED <<retryVars, debounceVars, loadFrame>>

\* the fetchWithRetry call of the settings request ends
SettingsCallEnds ==
    /\ \E p \in 1..Len(loads) :
          /\ loads[p].pc = "settings"
          /\ \E c \in CallOutcomes(loads[p].call) :
                Commit(CallEnded(State, p, c, TRUE))
    /\ UNCHANGED <<retryVars, debounceVars, loadFrame>>

\* the fetchWithRetry call of the data request ends
DataCallEnds ==
    /\ \E p \in 1..Len(loads), hasColumns \in BOOLEAN :
          /\ loads[p].pc = "data"
          /\ \E c \in CallOutcomes(loads[p].call) :
                Commit(CallEnded(State, p, c, hasColumns))
    /\ UNCHANGED <<retryVars, debounceVars, loadFrame>>

\* part_002:2489-2534  updateFilterVisibility resolved (it catches its own
\* errors); the manual inputs were cleared on entry, so validateBatchFilters
\* asks for no batching; the filter request is issued
FilterVisibilityResolved ==
    /\ \E p \in 1..Len(loads) :
          /\ loads[p].pc = "filterVisibility"
          /\ Commit([State EXCEPT !.isLoading = TRUE, !.loads[p].pc = "filter"])
    /\ UNCHANGED <<retryVars, debounceVars, loadFrame>>

\* part_002:2536-2669  the filter response (or its failure), then the rest of
\* the load
FilterResponse ==
    /\ \E p \in 1..Len(loads), ok \in BOOLEAN :
          /\ loads[p].pc = "filter"
          /\ LET sourceName == loads[p].applySource
                 st1 == IF ok
                        THEN [State EXCEPT
                                !.dataTable = [src |-> sourceName, load |-> p],
                                !.dataSourceCache[sourceName] =
                                    IF @.load /= 0 THEN [@ EXCEPT !.displayData = p] ELSE @]
                        ELSE State
             IN Commit(LoadCompleted(st1, p))
    /\ UNCHANGED <<retryVars, debounceVars, loadFrame>>

\* part_002:2319-2322 / 5650-5653  the 500 ms timer runs saveViewState
SaveViewTimerFires ==
    /\ \E t \in saveTimers :
          Commit(saveViewState([State EXCEPT !.saveTimers = @ \ {t}], t.blobName))
    /\ UNCHANGED <<retryVars, debounceVars, loadFrame>>

\* part_002:3435-3514  the user picks another source in blobSelect
SourceSelected ==
    /\ restoreTimers = {}
    /\ \E s \in Sources :
          /\ s /= blobSelectValue
          /\ Commit([clearManualFilterInputs(State) EXCEPT
                                  !.blobSelectValue = s,
                                  !.currentBlobDisplayName = s,
                                  !.dataTable = EmptyTable])
    /\ UNCHANGED <<retryVars, debounceVars, loadFrame>>

\* part_002:1438-1444  the timer of restoreViewState writes the four text fields
RestoreTimerFires ==
    /\ \E t \in restoreTimers :
          LET inputs == [filterInputs EXCEPT !.skuHijo = t.filterStates.skuHijo,
                                            !.skuPadre = t.filterStates.skuPadre,
                                            !.ticket = t.filterStates.ticket,
                                            !.lineamiento = t.filterStates.lineamiento]
          IN Commit([State EXCEPT !.restoreTimers = @ \ {t},
                                  !.filterInputs = inputs,
                                  !.loads[t.load].restoreFinished = TRUE,
                                  !.loads[t.load].inputsAfterRestore = inputs])
    /\ UNCHANGED <<retryVars, debounceVars, loadFrame>>

\* what the user enters in the SKU field
TypedTexts == {<<>>, <<7>>}

\* the user edits the SKU field or ticks the extend checkbox
FilterInputTyped ==
    /\ restoreTimers = {}
    /\ \/ \E text \in TypedTexts :
             /\ text /= filterInputs.skuHijo
             /\ Commit([State EXCEPT !.filterInputs.skuHijo = text])
       \/ Commit([State EXCEPT !.filterInputs.extendSkuHijo = ~@])
    /\ UNCHANGED <<retryVars, debounceVars, loadFrame>>

Init ==
    /\ call = NewCall(0, 1000, 0)
    /\ DebounceInit
    /\ LoadInit
    /\ LaterInit

Next ==
    \/ SourceSelected
    \/ LoadRequested
    \/ LoadWithColumnsRequested
    \/ SettingsCallEnds
    \/ DataCallEnds
    \/ FilterVisibilityResolved
    \/ FilterResponse
    \/ SaveViewTimerFires
    \/ RestoreTimerFires

Spec == Init /\ [][Next]_vars

\* the data loads with a user who also edits the filter inputs
ViewNext ==
    \/ SourceSelected
    \/ LoadRequested
    \/ LoadWithColumnsRequested
    \/ SettingsCallEnds
    \/ DataCallEnds
    \/ FilterVisibilityResolved
    \/ FilterResponse
    \/ SaveViewTimerFires
    \/ RestoreTimerFires
    \/ FilterInputTyped

SpecView == Init /\ [][ViewNext]_vars

\* The data loads of a user who waits for a load to end before asking for
\* the next one.
MaxSerialLoads == 3

AllLoadsEnded == \A q \in 1..Len(loads) : loads[q].pc \in Terminal

SerialLoadRequested ==
    /\ Len(loads) < MaxSerialLoads
    /\ AllLoadsEnded
    /\ restoreTimers = {}
    /\ currentBlobDisplayName /= NoSource \/ blobSelectValue /= NoSource
    /\ \E outcome \in RestoreOutcomes : Commit(handleDataLoad(State, outcome))
    /\ UNCHANGED <<retryVars, debounceVars, loadFrame>>

SerialNext ==
    \/ SourceSelected
    \/ SerialLoadRequested
    \/ SettingsCallEnds
    \/ DataCallEnds
    \/ FilterVisibilityResolved
    \/ FilterResponse
    \/ SaveViewTimerFires
    \/ RestoreTimerFires

SpecSerial == Init /\ [][SerialNext]_vars

(***************************************************************************)
(* Properties of the data loads, checked under Spec.                       *)
(***************************************************************************)
\* C1 (as claimed): when a load of a source is started while an earlier load of
\* the same source is still waiting for its response, neither the cache entry
\* of the source nor the displayed table ever comes from the earlier load.
C1_LastIssuedLoadWins ==
    \A q \in 1..Len(loads) : \A p \in loads[q].superseded :
        /\ dataSourceCache[loads[q].cur].load /= p
        /\ dataTable.load /= p

C3_FailedLoadLeavesNoEntry ==
    \A p \in 1..Len(loads) : loads[p].pc = "failed" => ~loads[p].entryLeft

(***************************************************************************)
(* Filter pipeline: validateBatchFilters (part_002:2689-2733),             *)
(* getFilterPayload (part_002:3017-3076), handleApplyFilters               *)
(* (part_002:2478-2670), handleBatchProcessing (part_002:2923-3011) and    *)
(* exportBatch (part_002:2841-2918).                                       *)
(*                                                                         *)
(* The text of a manual ID-list field is a sequence of items: a positive   *)
(* number is one ID, Blank a run of white space, Comma a run of commas or  *)
(* semicolons; two IDs next to each other are separated by one separator.  *)
(***************************************************************************)
MaxRuns == 2

\* the literal 500 of part_002:2703-2704, 2731, 2952-2953 and 3040
BatchLimit == 500

Blank == 0
Comma == 0 - 1

\* the IDs 1..n pasted as one column
Range(n) == [i \in 1..n |-> i]

\* String.prototype.trim: leading and trailing white space is dropped
TrimText(text) ==
    IF \A i \in 1..Len(text) : text[i] = Blank THEN <<>>
    ELSE SubSeq(text,
                CHOOSE i \in 1..Len(text) :
                    text[i] /= Blank /\ \A j \in 1..(i - 1) : text[j] = Blank,
                CHOOSE i \in 1..Len(text) :
                    text[i] /= Blank /\ \A j \in (i + 1)..Len(text) : text[j] = Blank)

\* text.split(/[,;\s]+/).filter(Boolean): the IDs in order, duplicates kept
SplitValues(text) == SelectSeq(text, LAMBDA x : x > 0)

\* Math.ceil(n / 500)
CeilDiv(n, d) == (n + d - 1) \div d

\* plausible slip: a list of exactly 500 already counts as too long
Exceeds500_Inclusive(values) == Len(values) >= BatchLimit

\* part_002:2703-2704, 3040  values.length > 500
Exceeds500(values) == Len(values) > BatchLimit

\* plausible slip: the conflict of two oversized batched lists is resolved
\* silently in favour of the first field
BatchConflict_Never(hijoBatch, padreBatch, hijoValues, padreValues) == FALSE

\* part_002:2707
BatchConflict(hijoBatch, padreBatch, hijoValues, padreValues) ==
    hijoBatch /\ padreBatch /\ Exceeds500(hijoValues) /\ Exceeds500(padreValues)

\* part_002:2689-2733
validateBatchFilters(ui) ==
    LET hijoText  == TrimText(ui.skuHijo)
        padreText == TrimText(ui.skuPadre)
        hijoValues  == IF hijoText /= <<>> THEN SplitValues(hijoText) ELSE <<>>
        padreValues == IF padreText /= <<>> THEN SplitValues(padreText) ELSE <<>>
        batchType ==
            IF ui.batchProcessHijo /\ Exceeds500(hijoValues) THEN "hijo"
            ELSE IF ui.batchProcessPadre /\ Exceeds500(padreValues) THEN "padre"
            ELSE "null"
        batchValues == IF batchType = "hijo" THEN hijoValues
                       ELSE IF batchType = "padre" THEN padreValues ELSE <<>>
    IN
    IF hijoText = <<>> /\ padreText = <<>>
    THEN [valid |-> TRUE, needsBatching |-> FALSE, batchType |-> "null",
          batchValues |-> <<>>, totalBatches |-> 0]
    ELSE IF BatchConflict(ui.batchProcessHijo, ui.batchProcessPadre, hijoValues, padreValues)
    THEN [valid |-> FALSE, needsBatching |-> FALSE, batchType |-> "null",
          batchValues |-> <<>>, totalBatches |-> 0]
    ELSE [valid |-> TRUE,
          needsBatching |-> batchType /= "null",
          batchType |-> batchType,
          batchValues |-> batchValues,
          totalBatches |-> IF Len(batchValues) > 0
                           THEN CeilDiv(Len(batchValues), BatchLimit) ELSE 0]

\* plausible slip: an oversized list is cut to the limit instead of refused
getListFromInput_Truncate(text, allowBatching) ==
    LET values == SplitValues(TrimText(text)) IN
    IF Exceeds500(values) /\ ~allowBatching
    THEN [threw |-> FALSE, list |-> SubSeq(values, 1, BatchLimit)]
    ELSE [threw |-> FALSE, list |-> values]

\* part_002:3030-3047  the list of a field, or the error it throws; null is
\* the empty list
getListFromInput(text, allowBatching) ==
    LET values == SplitValues(TrimText(text)) IN
    IF TrimText(text) = <<>> THEN [threw |-> FALSE, list |-> <<>>]
    ELSE IF Exceeds500(values) /\ ~allowBatching
    THEN [threw |-> TRUE, list |-> <<>>]
    ELSE [threw |-> FALSE, list |-> values]

\* part_002:3017-3076  the manual lists of the payload
getFilterPayload(ui) ==
    LET hijo  == getListFromInput(ui.skuHijo, ui.batchProcessHijo)
        padre == getListFromInput(ui.skuPadre, ui.batchProcessPadre)
        tickets == getListFromInput(ui.ticket, FALSE)
        lineamientos == getListFromInput(ui.lineamiento, FALSE)
    IN
    [threw |-> hijo.threw \/ padre.threw \/ tickets.threw \/ lineamientos.threw,
     sku_hijo_manual_list  |-> hijo.list,
     sku_padre_manual_list |-> padre.list,
     ticket_manual_list    |-> tickets.list,
     lineamiento_manual_list |-> lineamientos.list]

\* plausible slip: the end index of the slice is taken as inclusive
Slice_EndInclusive(values, start, end) ==
    SubSeq(values, start + 1, IF end + 1 < Len(values) THEN end + 1 ELSE Len(values))

\* Array.prototype.slice(start, end) for 0 <= start <= end
Slice(values, start, end) ==
    SubSeq(values, start + 1, IF end < Len(values) THEN end ELSE Len(values))

\* part_002:2950-2954  for (i = 0; i < batchValues.length; i += 500)
\*                         batches.push(batchValues.slice(i, i + 500))
RECURSIVE PushBatches(_, _, _)
PushBatches(batchValues, i, batches) ==
    IF i < Len(batchValues)
    THEN PushBatches(batchValues, i + BatchLimit,
                     Append(batches, Slice(batchValues, i, i + BatchLimit)))
    ELSE batches

SplitBatches(batchValues) == PushBatches(batchValues, 0, <<>>)

\* the texts the fields are filled with
HijoTexts  == {<<>>, <<Comma>>, <<Blank, 7, 7, Blank>>,
               Range(BatchLimit), Range(2 * BatchLimit + 1)}
PadreTexts == {<<>>, <<9>>, Range(BatchLimit + 1)}
TicketTexts == {<<>>, Range(BatchLimit + 1)}

FilterInputChoices ==
    [skuHijo : HijoTexts, skuPadre : PadreTexts, ticket : TicketTexts, lineamiento : {<<>>},
     extendSkuHijo : {FALSE},
     batchProcessHijo : BOOLEAN, batchProcessPadre : BOOLEAN]

\* what /api/data/filter answers: the filtered row count and the lengths of
\* the lists of requested values it did not find
NoResult == [received |-> FALSE, row_count_filtered |-> 0, skus_no_encontrados_hijo |-> 0,
             skus_no_encontrados_padre |-> 0, tickets_no_encontrados |-> 0,
             lineamientos_no_encontrados |-> 0]
Results ==
    [received : {TRUE}, row_count_filtered : {0, 5}, skus_no_encontrados_hijo : {0, 3},
     skus_no_encontrados_padre : {0}, tickets_no_encontrados : {0, 1},
     lineamientos_no_encontrados : {0}]
BatchResults ==
    {x \in Results : /\ x.row_count_filtered = 0 /\ x.tickets_no_encontrados = 0
                      /\ x.skus_no_encontrados_hijo > 0}

\* part_002:2546-2547
TotalNoEncontrados(result) ==
    result.skus_no_encontrados_hijo + result.skus_no_encontrados_padre
        + result.tickets_no_encontrados + result.lineamientos_no_encontrados

\* plausible slip: the partial modal is shown whenever something was not found
ClassifyResult_AlwaysPartial(result) ==
    IF TotalNoEncontrados(result) > 0 THEN "partial" ELSE "none"

\* part_002:2557-2582  which modal the response opens
ClassifyResult(result) ==
    IF TotalNoEncontrados(result) > 0
    THEN IF result.row_count_filtered = 0 THEN "empty" ELSE "partial"
    ELSE "none"

\* The state the filter handlers work on, written back by FilterCommit.
FilterState ==
    [filterRuns |-> filterRuns,
     requests   |-> requests,
     artifacts  |-> artifacts,
     batchProcessCancelled |-> batchProcessCancelled,
     batchModal |-> batchModal,
     downloadHandlers |-> downloadHandlers,
     isLoading  |-> isLoading]

FilterCommit(st) ==
    /\ filterRuns' = st.filterRuns
    /\ requests'   = st.requests
    /\ artifacts'  = st.artifacts
    /\ batchProcessCancelled' = st.batchProcessCancelled
    /\ batchModal' = st.batchModal
    /\ downloadHandlers' = st.downloadHandlers
    /\ isLoading'  = st.isLoading
    /\ UNCHANGED <<filterInputs, retryVars, debounceVars, currentBlobDisplayName,
                   blobSelectValue, dataSourceCache, viewStateCache, abortController,
                   dataTable, saveTimers, loads, restoreTimers, lazyVars, moreVars>>

NotCancelled == 0 - 1

\* the positions of a batch run between two of its steps
BatchPending == {"batchFilter", "batchExport", "awaitDownload", "delay"}

\* a run of handleApplyFilters(1, false) as it stands on entry
NewFilterRun(validation) ==
    [pc |-> "start",
     valid |-> validation.valid,
     needsBatching |-> validation.needsBatching,
     batchType |-> validation.batchType,
     totalBatches |-> validation.totalBatches,
     batches |-> <<>>,
     i |-> 0,                   \* batchNumber of the chunk in hand
     result |-> NoResult,       \* the last filter response received
     modal |-> "none",          \* the result modal opened for it
     error |-> "",
     \* history: the number of requests the run had sent when the user
     \* cancelled it
     sentAtCancel |-> NotCancelled,
     \* history: the store, the cache entry and the table hold the result of
     \* this run
     displayed |-> FALSE]

\* what the history keeps of a list that was sent: its length, and whether
\* no value occurs twice in it
ListSent(list) ==
    [count |-> Len(list),
     distinct |-> Cardinality({list[j] : j \in 1..Len(list)}) = Len(list)]

\* fetch(url, {body: JSON.stringify(payload)}) of run r; chunk is 0 outside
\* batch mode
SendRequest(st, r, kind, chunk, payload) ==
    [st EXCEPT !.requests[r] = Append(@,
        [kind |-> kind, chunk |-> chunk,
         sku_hijo_manual_list  |-> ListSent(payload.sku_hijo_manual_list),
         sku_padre_manual_list |-> ListSent(payload.sku_padre_manual_list),
         ticket_manual_list    |-> ListSent(payload.ticket_manual_list),
         lineamiento_manual_list |-> ListSent(payload.lineamiento_manual_list),
         \* history: in batch mode the batched list is the chunk of the run
         carriesChunk |->
            (chunk >= 1 /\
                LET run == st.filterRuns[r] IN
                IF run.batchType = "hijo"
                THEN payload.sku_hijo_manual_list = run.batches[chunk]
                ELSE payload.sku_padre_manual_list = run.batches[chunk]),
         \* history: the artifact of the chunk before it exists
         previousProduced |->
            (chunk <= 1 \/ \E a \in 1..Len(st.artifacts[r]) :
                              st.artifacts[r][a] = chunk - 1)])]

\* fetch(url, {body: JSON.stringify(batchPayload)}) with the payload of the
\* last request of run r (part_002:2875-2879)
SendAgain(st, r, kind) ==
    [st EXCEPT !.requests[r] = Append(@, [@[Len(@)] EXCEPT !.kind = kind])]

\* part_002:2988-3010  after the loop, and finally
BatchAfterLoop(st, r) ==
    IF ~st.batchProcessCancelled
    THEN [st EXCEPT !.batchModal.status = "completed", !.filterRuns[r].pc = "completed"]
    ELSE [st EXCEPT !.batchModal.shown = FALSE, !.filterRuns[r].pc = "cancelled"]

\* part_002:3001-3010  catch and finally of handleBatchProcessing
BatchCatch(st, r, error) ==
    [st EXCEPT !.batchModal.shown = FALSE,
               !.filterRuns[r].pc = "batchError",
               !.filterRuns[r].error = error]

\* part_002:2957-2980 and 2841-2850  one pass of the loop for chunk k, up to
\* the first await of exportBatch
BatchLoop(st, r, k) ==
    LET run == st.filterRuns[r] IN
    IF k > Len(run.batches) THEN BatchAfterLoop(st, r)
    ELSE IF st.batchProcessCancelled THEN BatchAfterLoop(st, r)
    ELSE LET basePayload == getFilterPayload(filterInputs) IN
         IF basePayload.threw THEN BatchCatch(st, r, "limit")
         ELSE LET batchPayload ==
                    IF run.batchType = "hijo"
                    THEN [basePayload EXCEPT !.sku_hijo_manual_list = run.batches[k]]
                    ELSE IF run.batchType = "padre"
                    THEN [basePayload EXCEPT !.sku_padre_manual_list = run.batches[k]]
                    ELSE basePayload
                  st1 == [st EXCEPT !.batchModal.status = "processing",
                                    !.filterRuns[r].pc = "batchFilter",
                                    !.filterRuns[r].i = k]
              IN SendRequest(st1, r, "filter", k, batchPayload)

\* part_002:2923-2957  handleBatchProcessing up to the loop
handleBatchProcessing(st, r) ==
    LET run == st.filterRuns[r]
        st1 == [st EXCEPT !.batchProcessCancelled = FALSE,
                          !.batchModal.shown = TRUE,
                          !.filterRuns[r].batches =
                              SplitBatches(validateBatchFilters(filterInputs).batchValues)]
    IN BatchLoop(st1, r, 1)

\* part_002:2478-2534  handleApplyFilters(1, false) up to its first await; the
\* source is loaded
handleApplyFilters(st) ==
    LET batchValidation == validateBatchFilters(filterInputs)
        r   == Len(st.filterRuns) + 1
        st1 == [st EXCEPT !.filterRuns = Append(@, NewFilterRun(batchValidation)),
                          !.requests = Append(@, <<>>),
                          !.artifacts = Append(@, <<>>)]
    IN
    IF ~batchValidation.valid
    THEN [st1 EXCEPT !.filterRuns[r].pc = "rejected", !.filterRuns[r].error = "conflict"]
    ELSE IF batchValidation.needsBatching
    THEN handleBatchProcessing(st1, r)
    ELSE LET payload == getFilterPayload(filterInputs) IN
         IF payload.threw
         THEN [st1 EXCEPT !.filterRuns[r].pc = "failed", !.filterRuns[r].error = "limit",
                          !.isLoading = FALSE]
         ELSE SendRequest([st1 EXCEPT !.filterRuns[r].pc = "filterWait",
                                      !.isLoading = TRUE],
                          r, "filter", 0, payload)

\* part_002:2892-2912 and 2982-2986  the download handler of run r ran: the
\* file is saved, exportBatch resolves and the loop goes on
BatchResume(st, r) ==
    LET run == st.filterRuns[r]
        st1 == [st EXCEPT !.artifacts[r] = Append(@, run.i)]
    IN
    IF run.i < Len(run.batches) /\ ~st1.batchProcessCancelled
    THEN [st1 EXCEPT !.filterRuns[r].pc = "delay"]
    ELSE BatchLoop(st1, r, run.i + 1)

\* a click on batchDownloadBtn runs every listener registered on it
RECURSIVE RunDownloadHandlers(_, _)
RunDownloadHandlers(st, handlers) ==
    IF handlers = <<>> THEN st
    ELSE RunDownloadHandlers(BatchResume(st, Head(handlers)), Tail(handlers))

SourceIsLoaded ==
    /\ currentBlobDisplayName /= NoSource
    /\ dataSourceCache[currentBlobDisplayName].load /= 0

\* the user applies the filters (button, or Enter in a field); the batch modal
\* has a static backdrop, so the panel is out of reach while it is shown
ApplyFiltersRequested ==
    /\ Len(filterRuns) < MaxRuns
    /\ ~batchModal.shown
    /\ SourceIsLoaded
    /\ FilterCommit(handleApplyFilters(FilterState))

\* plausible slip: a failed request is sent once more before the run gives up
ApplyFailed_Resend(st, r) ==
    IF Len(st.requests[r]) < 2 THEN SendAgain(st, r, "filter")
    ELSE [st EXCEPT !.filterRuns[r].pc = "failed",
                    !.filterRuns[r].error = "http",
                    !.isLoading = FALSE]

\* part_002:2536, 2646-2669  the request failed: catch and finally
ApplyFailed(st, r) ==
    [st EXCEPT !.filterRuns[r].pc = "failed",
               !.filterRuns[r].error = "http",
               !.isLoading = FALSE]

\* part_002:2596-2615  setDisplayData, the update of the cache entry,
\* renderDataTable and renderPagination: what was shown before is replaced
ShowResultOf(runs, r) ==
    [k \in DOMAIN runs |-> [runs[k] EXCEPT !.displayed = (k = r)]]

\* part_002:2536-2669  the answer to the filter request of a run outside batch mode
ApplyFilterResponse ==
    \E r \in 1..Len(filterRuns), ok \in BOOLEAN, result \in Results :
        /\ filterRuns[r].pc = "filterWait"
        /\ FilterCommit(
              IF ok
              THEN [FilterState EXCEPT !.filterRuns =
                                           ShowResultOf([@ EXCEPT ![r].pc = "done",
                                                                  ![r].result = result,
                                                                  ![r].modal = ClassifyResult(result)],
                                                        r),
                                       !.isLoading = FALSE]
              ELSE ApplyFailed(FilterState, r))

\* part_002:2852-2879  the answer to the filter request of a chunk; the export
\* request follows whatever the answer was
BatchFilterResponse ==
    \E r \in 1..Len(filterRuns), ok \in BOOLEAN, result \in BatchResults :
        /\ filterRuns[r].pc = "batchFilter"
        /\ LET run == filterRuns[r]
               st1 == [FilterState EXCEPT !.filterRuns[r].pc = "batchExport",
                                          !.filterRuns[r].result =
                                              IF ok THEN result ELSE @]
           IN FilterCommit(SendAgain(st1, r, "export"))

\* part_002:2881-2912  the answer to the export request of a chunk
BatchExportResponse ==
    \E r \in 1..Len(filterRuns), ok \in BOOLEAN :
        /\ filterRuns[r].pc = "batchExport"
        /\ FilterCommit(
              IF ok
              THEN [FilterState EXCEPT !.batchModal.status = "ready",
                                       !.downloadHandlers = Append(@, r),
                                       !.filterRuns[r].pc = "awaitDownload"]
              ELSE BatchCatch(FilterState, r, "http"))

\* the user clicks the download button of the modal
DownloadClicked ==
    /\ batchModal.shown
    /\ batchModal.status = "ready"
    /\ downloadHandlers /= <<>>
    /\ FilterCommit(RunDownloadHandlers([FilterState EXCEPT !.downloadHandlers = <<>>],
                                        downloadHandlers))

\* part_002:2984  the 500 ms pause between two chunks is over
BatchDelayElapsed ==
    \E r \in 1..Len(filterRuns) :
        /\ filterRuns[r].pc = "delay"
        /\ FilterCommit(BatchLoop(FilterState, r, filterRuns[r].i + 1))

\* part_002:2936-2941  the user clicks the cancel button of the modal
cancelHandler(st) ==
    [st EXCEPT !.batchProcessCancelled = TRUE,
               !.batchModal.shown = FALSE,
               !.filterRuns = [r \in DOMAIN @ |->
                    IF @[r].pc \in BatchPending /\ @[r].sentAtCancel = NotCancelled
                    THEN [@[r] EXCEPT !.sentAtCancel = Len(st.requests[r])]
                    ELSE @[r]]]

CancelClicked ==
    /\ batchModal.shown
    /\ batchModal.status /= "completed"
    /\ FilterCommit(cancelHandler(FilterState))

\* the user closes the modal that reports completion
CloseClicked ==
    /\ batchModal.shown
    /\ batchModal.status = "completed"
    /\ FilterCommit([FilterState EXCEPT !.batchModal.shown = FALSE])

\* a source is loaded and shown; the fields are filled in
FilterInit ==
    /\ call = NewCall(0, 1000, 0)
    /\ DebounceInit
    /\ currentBlobDisplayName = "A"
    /\ blobSelectValue = "A"
    /\ dataSourceCache = [s \in Sources |->
                            IF s = "A" THEN [load |-> 1, displayData |-> 1] ELSE NoEntry]
    /\ viewStateCache = [s \in Sources |-> NoSnapshot]
    /\ abortController = 0
    /\ isLoading = FALSE
    /\ dataTable = [src |-> "A", load |-> 1]
    /\ saveTimers = {}
    /\ loads = <<>>
    /\ restoreTimers = {}
    /\ filterInputs \in FilterInputChoices
    /\ FilterIdle
    /\ LazyIdle
    /\ MoreIdle

FilterNext ==
    \/ ApplyFiltersRequested
    \/ ApplyFilterResponse
    \/ BatchFilterResponse
    \/ BatchExportResponse
    \/ DownloadClicked
    \/ BatchDelayElapsed
    \/ CancelClicked
    \/ CloseClicked

SpecFilter == FilterInit /\ [][FilterNext]_vars

(***************************************************************************)
(* Properties of the filter pipeline, checked under SpecFilter.            *)
(***************************************************************************)
\* the number of IDs a field holds
EntryCount(text) == Cardinality({j \in 1..Len(text) : text[j] > 0})

HijoOversized  == EntryCount(filterInputs.skuHijo) > BatchLimit
PadreOversized == EntryCount(filterInputs.skuPadre) > BatchLimit

\* some field holds more than 500 IDs without batching enabled for it
OversizedUnbatched ==
    \/ (HijoOversized /\ ~filterInputs.batchProcessHijo)
    \/ (PadreOversized /\ ~filterInputs.batchProcessPadre)
    \/ EntryCount(filterInputs.ticket) > BatchLimit
    \/ EntryCount(filterInputs.lineamiento) > BatchLimit

RECURSIVE Concat(_)
Concat(seqs) == IF seqs = <<>> THEN <<>> ELSE Head(seqs) \o Concat(Tail(seqs))

\* the modal the counts F (found) and N (not found) call for
ExpectedModal(F, N) == IF N = 0 THEN "none" ELSE IF F = 0 THEN "empty" ELSE "partial"

\* C11: when both ID-list fields hold more than 500 entries and batching is
\* enabled on both, every filter application is rejected with the conflict
\* error and issues no filter or export request.
C11_ConflictRejected ==
    \A r \in 1..Len(filterRuns) :
        (/\ HijoOversized /\ PadreOversized
         /\ filterInputs.batchProcessHijo /\ filterInputs.batchProcessPadre)
        => /\ filterRuns[r].pc = "rejected"
           /\ filterRuns[r].error = "conflict"
           /\ requests[r] = <<>>

C11_Witness ==
    /\ Len(filterRuns) = 2
    /\ HijoOversized /\ PadreOversized
    /\ filterInputs.batchProcessHijo /\ filterInputs.batchProcessPadre
    /\ filterRuns[2].pc = "rejected"
    /\ requests[2] = <<>>

\* C12: when a field holds more than 500 entries without batching enabled for
\* it, a filter application ends with an error and sends no request; and no
\* request ever carries a shortened list: a list sent has the length of its
\* field, unless it is the chunk of the field being batched.
C12_OversizedListFailsFast ==
    \A r \in 1..Len(filterRuns) :
        /\ OversizedUnbatched
           => /\ filterRuns[r].pc \in {"failed", "batchError", "rejected"}
              /\ filterRuns[r].error \in {"limit", "conflict"}
              /\ (filterRuns[r].valid => filterRuns[r].error = "limit")
              /\ requests[r] = <<>>
        /\ \A q \in 1..Len(requests[r]) :
              /\ requests[r][q].ticket_manual_list.count = EntryCount(filterInputs.ticket)
              /\ requests[r][q].lineamiento_manual_list.count
                    = EntryCount(filterInputs.lineamiento)
              /\ (filterRuns[r].batchType /= "hijo"
                  => requests[r][q].sku_hijo_manual_list.count
                        = EntryCount(filterInputs.skuHijo))
              /\ (filterRuns[r].batchType /= "padre"
                  => requests[r][q].sku_padre_manual_list.count
                        = EntryCount(filterInputs.skuPadre))

C12_Witness ==
    /\ Len(filterRuns) >= 1
    /\ EntryCount(filterInputs.ticket) > BatchLimit
    /\ ~HijoOversized /\ ~PadreOversized
    /\ filterRuns[1].pc = "failed"
    /\ filterRuns[1].error = "limit"
    /\ requests[1] = <<>>

\* C13: a filter application goes into batch mode exactly when a field with
\* batching enabled holds more than 500 entries (500 do not); the list is then
\* split into ceil(n/500) chunks, all but the last of exactly 500 entries, which
\* put together in order give the list back; and the requests of chunk k carry
\* chunk k.
C13_BatchesPartitionList ==
    \A r \in 1..Len(filterRuns) :
        LET run == filterRuns[r]
            list == IF run.batchType = "hijo" THEN SplitValues(filterInputs.skuHijo)
                    ELSE SplitValues(filterInputs.skuPadre)
            n == Len(list)
            m == Len(run.batches)
        IN
        /\ run.valid =>
              (run.needsBatching <=>
                  \/ (filterInputs.batchProcessHijo /\ HijoOversized)
                  \/ (filterInputs.batchProcessPadre /\ PadreOversized))
        /\ run.needsBatching =>
              /\ n > BatchLimit
              /\ (m - 1) * BatchLimit < n /\ n <= m * BatchLimit
              /\ run.totalBatches = m
              /\ \A k \in 1..(m - 1) : Len(run.batches[k]) = BatchLimit
              /\ Len(run.batches[m]) = n - (m - 1) * BatchLimit
              /\ Concat(run.batches) = list
              /\ \A q \in 1..Len(requests[r]) : requests[r][q].carriesChunk
        /\ ~run.needsBatching => run.batches = <<>>

C13_Witness ==
    /\ Len(filterRuns) >= 1
    /\ filterRuns[1].batchType = "padre"
    /\ EntryCount(filterInputs.skuPadre) = BatchLimit + 1
    /\ EntryCount(filterInputs.skuHijo) = BatchLimit
    /\ filterInputs.batchProcessHijo
    /\ Len(filterRuns[1].batches) = 2
    /\ Len(filterRuns[1].batches[1]) = BatchLimit
    /\ Len(filterRuns[1].batches[2]) = 1
    /\ filterRuns[1].pc = "completed"

\* C14 (as claimed): no request for a chunk is issued before the export file of
\* the chunk before it was produced, and at no time are the requests of more
\* than one chunk in flight.
C14_ChunksStrictlySequential ==
    /\ \A r \in 1..Len(filterRuns) : \A q \in 1..Len(requests[r]) :
          requests[r][q].previousProduced
    /\ Cardinality({r \in 1..Len(filterRuns) :
                       filterRuns[r].pc \in {"batchFilter", "batchExport"}}) <= 1

\* C15 (as claimed): no manual ID list of a filter request that was sent holds
\* a value twice or holds more than 500 values.
C15_ListsDeduplicatedAndBounded ==
    \A r \in 1..Len(filterRuns) : \A q \in 1..Len(requests[r]) :
        requests[r][q].kind = "filter" =>
            \A list \in {requests[r][q].sku_hijo_manual_list,
                         requests[r][q].sku_padre_manual_list,
                         requests[r][q].ticket_manual_list,
                         requests[r][q].lineamiento_manual_list} :
                list.distinct /\ list.count <= BatchLimit

LAZY_LOAD_CHUNK_SIZE == 50
LAZY_LOAD_INITIAL_SIZE == 100
MaxRenders == 2
MaxChunkLoads == 3

\* data.slice(start, end), the rows being their indices
DataSlice(start, end) ==
    IF end > start THEN [i \in 1..(end - start) |-> start + i - 1] ELSE <<>>

MathMin(a, b) == IF a <= b THEN a ELSE b

\* sizes of the results that are rendered
ResultSizes ==
    {0, LAZY_LOAD_INITIAL_SIZE, LAZY_LOAD_INITIAL_SIZE + 1,
     LAZY_LOAD_INITIAL_SIZE + 20, 2 * LAZY_LOAD_INITIAL_SIZE}

\* setupLazyLoadTrigger: the row appended after the first rows
NewSentinel == [present |-> TRUE, hidden |-> FALSE, content |-> "trigger"]

renderDataTable(n) ==
    LET lazy  == n > LAZY_LOAD_INITIAL_SIZE
        shown == IF lazy THEN DataSlice(0, LAZY_LOAD_INITIAL_SIZE) ELSE DataSlice(0, n)
        row   == IF lazy THEN NewSentinel ELSE NoSentinel
    IN  /\ tableRows' = shown
        /\ totalRows' = n
        /\ tableGen' = tableGen + 1
        /\ sentinel' = row
        /\ renders' = Append(renders, [n |-> n, rows |-> shown, sentinel |-> row])

\* a filter result of n rows arrives and is rendered
ResultRendered ==
    /\ Len(renders) < MaxRenders
    /\ \E n \in ResultSizes : renderDataTable(n)
    /\ UNCHANGED <<chunkLoads, retryVars, debounceVars, loadVars, filterVars, moreVars>>

\* an invocation of loadMoreChunk that has sent its request
NewChunkLoad ==
    [pc |-> "fetch",
     gen |-> tableGen,              \* the sentinel row it was given
     total |-> totalRows,           \* totalData.length of the answer to its request
     currentRowCount |-> 0,
     before |-> 0,                  \* history: rows in the table when it appended
     appended |-> <<>>,             \* history: the rows it appended
     renderedAtRequest |-> Len(tableRows)]   \* history: rows in the table at its request

\* the observer callback: the visible sentinel row comes within 200px of view
SentinelIntersects ==
    /\ sentinel.present
    /\ ~sentinel.hidden
    /\ Len(chunkLoads) < MaxChunkLoads
    /\ chunkLoads' = Append(chunkLoads, NewChunkLoad)
    /\ UNCHANGED <<tableRows, totalRows, tableGen, sentinel, renders,
                   retryVars, debounceVars, loadVars, filterVars, moreVars>>

\* what a chunk load does to the sentinel row it holds: a row that a later
\* rendering removed from the document changes nothing that is shown
OnSentinel(load, row) == IF load.gen = tableGen THEN row ELSE sentinel

\* loadMoreChunk from the answer of the request to the 150 ms delay
ChunkAnswered(l, ok) ==
    LET load == chunkLoads[l]
        currentRowCount == Len(tableRows)
    IN  IF ~ok
        THEN /\ chunkLoads' = [chunkLoads EXCEPT ![l].pc = "failed"]
             /\ sentinel' = OnSentinel(load, [sentinel EXCEPT !.content = "error"])
        ELSE IF currentRowCount >= load.total
        THEN /\ chunkLoads' = [chunkLoads EXCEPT ![l].pc = "done",
                                                 ![l].currentRowCount = currentRowCount,
                                                 ![l].before = currentRowCount]
             /\ sentinel' = OnSentinel(load, [sentinel EXCEPT !.hidden = TRUE])
        ELSE /\ chunkLoads' = [chunkLoads EXCEPT ![l].pc = "delay",
                                                 ![l].currentRowCount = currentRowCount]
             /\ sentinel' = OnSentinel(load, [sentinel EXCEPT !.content = "loading"])

ChunkFetchAnswered ==
    /\ \E l \in 1..Len(chunkLoads), ok \in BOOLEAN :
          /\ chunkLoads[l].pc = "fetch"
          /\ ChunkAnswered(l, ok)
    /\ UNCHANGED <<tableRows, totalRows, tableGen, renders,
                   retryVars, debounceVars, loadVars, filterVars, moreVars>>

\* loadMoreChunk after the delay: the rows are inserted before the sentinel row
ChunkAppend(l) ==
    LET load == chunkLoads[l]
        endIndex == MathMin(load.currentRowCount + LAZY_LOAD_CHUNK_SIZE, load.total)
        newRows == DataSlice(load.currentRowCount, endIndex)
    IN  IF load.gen # tableGen
        THEN \* insertBefore throws, the row is no child of the body: catch
             /\ chunkLoads' = [chunkLoads EXCEPT ![l].pc = "failed"]
             /\ UNCHANGED <<tableRows, sentinel>>
        ELSE /\ tableRows' = tableRows \o newRows
             /\ chunkLoads' = [chunkLoads EXCEPT ![l].pc = "done",
                                                 ![l].before = Len(tableRows),
                                                 ![l].appended = newRows]
             /\ sentinel' = IF endIndex >= load.total
                            THEN [sentinel EXCEPT !.hidden = TRUE]
                            ELSE [sentinel EXCEPT !.content = "trigger"]

ChunkDelayElapsed ==
    /\ \E l \in 1..Len(chunkLoads) :
          /\ chunkLoads[l].pc = "delay"
          /\ ChunkAppend(l)
    /\ UNCHANGED <<totalRows, tableGen, renders,
                   retryVars, debounceVars, loadVars, filterVars, moreVars>>

LazyInit ==
    /\ call = NewCall(0, 1000, 0)
    /\ DebounceInit
    /\ LoadInit
    /\ LaterInit

LazyNext ==
    \/ ResultRendered
    \/ SentinelIntersects
    \/ ChunkFetchAnswered
    \/ ChunkDelayElapsed

SpecLazy == LazyInit /\ [][LazyNext]_vars

(***************************************************************************)
(* Properties of the progressive rendering, checked under SpecLazy.        *)
(***************************************************************************)
\* the chunk loads that ran to their end on the table that is shown
CompletedLoads ==
    {l \in 1..Len(chunkLoads) :
        chunkLoads[l].pc = "done" /\ chunkLoads[l].gen = tableGen}

\* C17: a result of n rows is rendered whole and without a sentinel row when
\* n <= 100; when n > 100 its first 100 rows are rendered, followed by an
\* active sentinel row, and every trigger of the sentinel appends exactly the
\* next min(50, n - rows already rendered) rows of the result, in order.
C17_RenderThenAppendInOrder ==
    /\ \A k \in 1..Len(renders) :
          LET r == renders[k] IN
          IF r.n <= LAZY_LOAD_INITIAL_SIZE
          THEN r.rows = DataSlice(0, r.n) /\ ~r.sentinel.present
          ELSE r.rows = DataSlice(0, LAZY_LOAD_INITIAL_SIZE) /\ r.sentinel = NewSentinel
    /\ \A l \in CompletedLoads :
          LET load == chunkLoads[l] IN
          load.appended =
              DataSlice(load.before,
                        load.before + MathMin(LAZY_LOAD_CHUNK_SIZE, load.total - load.before))

\* C18: once as many rows are rendered as the result has, the sentinel row is
\* hidden, and no chunk load is started and no chunk request sent from then on.
C18_NoLoadOnceComplete ==
    /\ (sentinel.present /\ Len(tableRows) = totalRows) => sentinel.hidden
    /\ \A l \in 1..Len(chunkLoads) :
          chunkLoads[l].gen = tableGen => chunkLoads[l].renderedAtRequest # totalRows

(***************************************************************************)
(* Properties of the view cache, checked under SpecView and Spec.          *)
(***************************************************************************)
\* the invocations whose restore succeeded and whose timer has run
FinishedRestores ==
    {p \in 1..Len(loads) : loads[p].pc = "restored" /\ loads[p].restoreFinished}

\* C19: when the view of a source was saved and is restored from that save,
\* then after the restore has finished the table markup and the value of every
\* filter input are those of the time of the save, and the restore has sent
\* no network request.
C19_RestoreReproducesSavedView ==
    \A p \in FinishedRestores :
        /\ loads[p].tableAfterRestore = loads[p].snapshot.tableHTML
        /\ loads[p].inputsAfterRestore = loads[p].snapshot.inputsAtSave
        /\ ~loads[p].networkRequest

\* C20: whenever the restore attempted at the start of a load of S fails, the
\* snapshot of S is removed and the same load goes on to the network reload
\* of S (cur is the source its requests name, target is S).
C20_FailedRestoreFallsBackToReload ==
    \A p \in 1..Len(loads) :
        loads[p].restoreFailed =>
            /\ ~loads[p].snapshotLeft
            /\ loads[p].networkRequest
            /\ loads[p].cur = loads[p].target

(***************************************************************************)
(* The view cache by itself: saveViewState (part_002:1381) and             *)
(* restoreViewState (1415) called for any source on any page, whatever the *)
(* table shows.                                                            *)
(***************************************************************************)
MaxViewCalls == 3

Pages == [table : BOOLEAN, filterContainer : BOOLEAN]

\* what the table can show
TableContents == {EmptyTable, [src |-> "A", load |-> 1]}

\* the try block of saveViewState: raised says that an exception is raised in
\* it before the snapshot is assigned; the catch at 1410 logs it
TrySaveViewState(st, blobName, raised) ==
    [ok |-> FALSE, threw |-> FALSE,
     st |-> IF raised THEN st ELSE saveViewState(st, blobName)]

\* the snapshot of blobName before and after a call is part of its record
ViewCall(op, blobName, raised, r) ==
    [n |-> viewCalls.n + 1,
     last |-> [op |-> op, blobName |-> blobName, page |-> page, raised |-> raised,
               before |-> viewStateCache[blobName],
               after |-> r.st.viewStateCache[blobName],
               tableAtCall |-> dataTable,
               ok |-> r.ok, threw |-> r.threw]]

SaveViewCalled ==
    /\ viewCalls.n < MaxViewCalls
    /\ \E s \in Sources, raised \in BOOLEAN :
          LET r == TrySaveViewState(State, s, raised) IN
          /\ Commit(r.st)
          /\ viewCalls' = ViewCall("save", s, raised, r)
    /\ UNCHANGED <<retryVars, debounceVars, filterRuns, requests, artifacts,
                   batchProcessCancelled, batchModal, downloadHandlers, lazyVars, page,
                   restVars>>

RestoreViewCalled ==
    /\ viewCalls.n < MaxViewCalls
    /\ \E s \in Sources, outcome \in RestoreOutcomes :
          LET r == restoreViewState(State, s, 0, outcome) IN
          /\ Commit([r.st EXCEPT !.restoreTimers = {}])
          /\ viewCalls' = ViewCall("restore", s, outcome = "threw", r)
    /\ UNCHANGED <<retryVars, debounceVars, filterRuns, requests, artifacts,
                   batchProcessCancelled, batchModal, downloadHandlers, lazyVars, page,
                   restVars>>

\* a result is rendered into the table, or the table is cleared
TableShown ==
    /\ \E t \in TableContents :
          /\ t /= dataTable
          /\ dataTable' = t
    /\ UNCHANGED <<retryVars, debounceVars, currentBlobDisplayName, blobSelectValue,
                   dataSourceCache, viewStateCache, abortController, isLoading,
                   saveTimers, loads, restoreTimers, laterVars>>

\* a container is taken out of the page or put into it
PageChanged ==
    /\ \E pg \in Pages :
          /\ pg /= page
          /\ page' = pg
    /\ UNCHANGED <<retryVars, debounceVars, loadVars, filterVars, lazyVars, viewCalls,
                   restVars>>

CacheInit ==
    /\ call = NewCall(0, 1000, 0)
    /\ DebounceInit
    /\ LoadInit
    /\ filterInputs = NoFilterInputs
    /\ FilterIdle
    /\ LazyIdle
    /\ page \in Pages
    /\ viewCalls = NoViewCall
    /\ RestIdle

CacheNext ==
    \/ SaveViewCalled
    \/ RestoreViewCalled
    \/ TableShown
    \/ PageChanged

SpecCache == CacheInit /\ [][CacheNext]_vars

\* C21: a restore for S returns false, and no exception leaves it, whenever
\* there is no snapshot for S or a container it needs is missing.
C21_RestoreReturnsFalse ==
    LET c == viewCalls.last IN
    (c.op = "restore" /\ (~c.before.saved \/ ContainersMissing(c.page)))
        => (~c.ok /\ ~c.threw)

C21_Witness ==
    LET c == viewCalls.last IN
    /\ c.op = "restore"
    /\ c.before.saved
    /\ ContainersMissing(c.page)
    /\ ~c.ok

\* C22: no exception leaves a save for S, and a save made while a container it
\* needs is missing changes nothing: it creates no snapshot for S and leaves
\* an existing one as it was.
C22_SaveWithoutContainersIsNoOp ==
    LET c == viewCalls.last IN
    c.op = "save" =>
        /\ ~c.threw
        /\ ContainersMissing(c.page) => c.after = c.before

C22_Witness ==
    LET c == viewCalls.last IN
    /\ c.op = "save"
    /\ ContainersMissing(c.page)
    /\ c.before.saved
    /\ c.before.tableHTML /= c.tableAtCall
    /\ c.after = c.before

(***************************************************************************)
(* Exports: handleExport (part_002:3078) and handleCancelExport (3191).    *)
(* The export buttons are hidden while an export runs, the cancel button   *)
(* is shown only then.                                                     *)
(***************************************************************************)
MaxExports == 1

\* what the export actions leave alone
exportFrame == <<retryVars, debounceVars, currentBlobDisplayName, blobSelectValue,
                 dataSourceCache, viewStateCache, abortController, dataTable, saveTimers,
                 loads, restoreTimers, filterVars, lazyVars, cacheVars, healthVars, logVars,
                 lastVars, returnVars, sideVars>>

\* response statuses of the export endpoint; 0 stands for a rejected fetch
ExportStatuses == {0, 200, 499, 500}

\* part_002:3136-3150  catch and finally of handleExport
ExportEnds(message) ==
    /\ exportRun' = [exportRun EXCEPT !.pc = "ended", !.isExporting = FALSE]
    /\ exportStatus' = message
    /\ isLoading' = FALSE

\* part_002:3078-3109  up to the export request; getFilterPayload is inside try
ExportRequested ==
    /\ exportRun.n < MaxExports
    /\ ~exportRun.isExporting
    /\ currentBlobDisplayName /= NoSource
    /\ IF getFilterPayload(filterInputs).threw
       THEN /\ exportRun' = [n |-> exportRun.n + 1, pc |-> "ended",
                             isExporting |-> FALSE, cancelled |-> FALSE]
            /\ exportStatus' = "error"
            /\ isLoading' = FALSE
       ELSE /\ exportRun' = [n |-> exportRun.n + 1, pc |-> "fetch",
                             isExporting |-> TRUE, cancelled |-> FALSE]
            /\ exportStatus' = "preparing"
            /\ isLoading' = TRUE
    /\ UNCHANGED <<cancelNotifies, exportFrame>>

\* part_002:3111-3118  the answer to the export request
ExportResponse ==
    /\ exportRun.pc = "fetch"
    /\ \E status \in ExportStatuses :
          IF status = 200
          THEN /\ exportRun' = [exportRun EXCEPT !.pc = "blob"]
               /\ UNCHANGED <<exportStatus, isLoading>>
          ELSE ExportEnds("error")
    /\ UNCHANGED <<cancelNotifies, exportFrame>>

\* part_002:3120-3134  the body is read and handed to the browser
ExportBlobRead ==
    /\ exportRun.pc = "blob"
    /\ \E ok \in BOOLEAN : ExportEnds(IF ok THEN "completed" ELSE "error")
    /\ UNCHANGED <<cancelNotifies, exportFrame>>

\* part_002:3191-3205 and 3136-3150  the user clicks the cancel button: the
\* controller is aborted, the cancel request is sent; the fetch (or the read
\* of the body) of handleExport rejects with an AbortError, which its catch
\* and finally handle before anything else happens
CancelExportClicked ==
    /\ exportRun.isExporting
    /\ exportRun' = [exportRun EXCEPT !.pc = "ended", !.isExporting = FALSE,
                                      !.cancelled = TRUE]
    /\ exportStatus' = "cancelled"
    /\ isLoading' = FALSE
    /\ cancelNotifies' = cancelNotifies + 1
    /\ UNCHANGED exportFrame

\* part_002:3200-3209  the cancel request is answered, or fails
CancelNotified ==
    /\ cancelNotifies > 0
    /\ cancelNotifies' = cancelNotifies - 1
    /\ \E ok \in BOOLEAN :
          exportStatus' = IF ok THEN "cancelling" ELSE "cancelError"
    /\ UNCHANGED <<exportRun, isLoading, exportFrame>>

\* the loads and the exports together
CancelNext ==
    \/ SourceSelected
    \/ LoadRequested
    \/ LoadWithColumnsRequested
    \/ SettingsCallEnds
    \/ DataCallEnds
    \/ FilterVisibilityResolved
    \/ FilterResponse
    \/ SaveViewTimerFires
    \/ RestoreTimerFires
    \/ ExportRequested
    \/ ExportResponse
    \/ ExportBlobRead
    \/ CancelExportClicked
    \/ CancelNotified

SpecCancel == Init /\ [][CancelNext]_vars

\* C23: a data load or an export that is cancelled while it is in flight ends
\* in the neutral cancelled state, and the user is told nothing else about it:
\* a load ends as cancelled, and once an export and its cancellation have
\* ended the status says that the export was cancelled.
C23_CancelledEndsNeutral ==
    /\ \A p \in 1..Len(loads) :
          (loads[p].cancelledInFlight /\ loads[p].pc \in Terminal)
              => loads[p].pc = "cancelled"
    /\ (exportRun.cancelled /\ exportRun.pc = "ended" /\ cancelNotifies = 0)
          => exportStatus = "cancelled"

(***************************************************************************)
(* Startup: waitForServer (part_002:761) polls checkServerReady (738)      *)
(* from an interval of 200 ms.  Time is counted in periods of that         *)
(* interval.  A request is answered within the period it is sent in.       *)
(***************************************************************************)
maxAttempts == 30
CheckIntervalMs == 200
HealthRetries == 3
HealthInitialDelay == 2000

\* what the startup actions leave alone
healthFrame == <<retryVars, debounceVars, loadVars, filterVars, lazyVars, cacheVars,
                 exportVars, logVars, lastVars, returnVars, sideVars>>

\* part_002:701  delay * 2^attempt of fetchWithRetry, in periods of the interval
RetryDelayPeriods(attempt) == (HealthInitialDelay * (2 ^ attempt)) \div CheckIntervalMs

\* no answer is waiting to be handled from an earlier period
NoneOverdue == \A r \in probes : r.dueAt >= healthNow

\* part_002:765-767  the interval fires: attempts++, checkServerReady is called
\* and sends its first request
IntervalFires ==
    /\ checkInterval
    /\ NoneOverdue
    /\ healthNow' = healthNow + 1
    /\ attempts' = attempts + 1
    /\ probes' = probes \cup {[attempt |-> 0, dueAt |-> healthNow + 1]}
    /\ UNCHANGED <<checkInterval, server, initCalls, healthFrame>>

\* part_002:769-773  checkServerReady returned true
ProbeSucceeded(r) ==
    /\ probes' = probes \ {r}
    /\ checkInterval' = FALSE
    /\ initCalls' = initCalls + 1

\* part_002:774-809  checkServerReady returned false
ProbeFailed(r) ==
    /\ probes' = probes \ {r}
    /\ checkInterval' = IF attempts >= maxAttempts THEN FALSE ELSE checkInterval
    /\ UNCHANGED initCalls

\* part_002:738-758, 656-704  a request of checkServerReady is answered:
\* 200 (ready), a network error (retried by fetchWithRetry after its delay),
\* or HTTP 404 (not retried)
ProbeAnswered ==
    /\ \E r \in probes :
          /\ r.dueAt <= healthNow
          /\ IF server = "up" THEN ProbeSucceeded(r)
             ELSE IF server = "notfound" \/ r.attempt = HealthRetries THEN ProbeFailed(r)
             ELSE /\ probes' = (probes \ {r}) \cup
                                  {[attempt |-> r.attempt + 1,
                                    dueAt |-> r.dueAt + RetryDelayPeriods(r.attempt)]}
                  /\ UNCHANGED <<checkInterval, initCalls>>
    /\ UNCHANGED <<healthNow, attempts, server, healthFrame>>

\* the interval is cleared; time passes for the calls still in flight
HealthTimePasses ==
    /\ ~checkInterval
    /\ probes /= {}
    /\ NoneOverdue
    /\ healthNow' = healthNow + 1
    /\ UNCHANGED <<attempts, checkInterval, probes, server, initCalls, healthFrame>>

\* the server finishes starting
ServerStarts ==
    /\ server /= "up"
    /\ server' = "up"
    /\ UNCHANGED <<healthNow, attempts, checkInterval, probes, initCalls, healthFrame>>

\* part_002:814  waitForServer() has just been called
HealthInit ==
    /\ call = NewCall(0, 1000, 0)
    /\ DebounceInit
    /\ LoadInit
    /\ filterInputs = NoFilterInputs
    /\ FilterIdle
    /\ LazyIdle
    /\ CacheIdle
    /\ ExportIdle
    /\ LogIdle
    /\ LastIdle
    /\ ReturnIdle
    /\ SideIdle
    /\ healthNow = 0
    /\ attempts = 0
    /\ checkInterval = TRUE
    /\ probes = {}
    /\ server \in {"refused", "notfound", "up"}
    /\ initCalls = 0

HealthNext ==
    \/ IntervalFires
    \/ ProbeAnswered
    \/ HealthTimePasses
    \/ ServerStarts

SpecHealth == HealthInit /\ [][HealthNext]_vars

\* C24: health polling stops at the first successful probe or at the ceiling
\* of 30 attempts: never more than 30 probe rounds are started, and once the
\* polling has stopped no further round is started.
C24_PollingWithinCeiling ==
    /\ [](attempts <= maxAttempts)
    /\ [][~checkInterval => attempts' = attempts]_vars

(***************************************************************************)
(* The log stream: connectToLogStream (part_002:3258-3326) and the         *)
(* reconnection of handleOnline (part_002:589-617).                        *)
(***************************************************************************)
MAX_LOG_STREAM_RETRIES == 3
LOG_STREAM_RETRY_DELAY == 2000
MaxLogMessages == 2
MaxOfflines == 2

\* what the log stream actions leave alone
logFrame == <<retryVars, debounceVars, loadVars, filterVars, lazyVars, cacheVars,
              exportVars, healthVars, lastVars, returnVars, sideVars>>

\* plausible slip: the limit is taken as inclusive
ShouldRetry_Inclusive(count) == count <= MAX_LOG_STREAM_RETRIES

\* part_002:3316  logStreamRetryCount < MAX_LOG_STREAM_RETRIES
ShouldRetry(count) == count < MAX_LOG_STREAM_RETRIES

\* part_002:3321  the delay of the timer, with the count already incremented
RetryDelay(count) == LOG_STREAM_RETRY_DELAY * count

\* part_002:3262-3267  connectToLogStream: the old source is closed, a new one made
connectToLogStream ==
    /\ logEventSource' = "live"
    /\ logHistory' = [logHistory EXCEPT
                        !.reconnects = IF logHistory.failed THEN @ + 1 ELSE @]

\* part_002:3269-3270  onmessage
LogMessage ==
    /\ logEventSource = "live"
    /\ logHistory.messages < MaxLogMessages
    /\ logStreamRetryCount' = 0
    /\ logHistory' = [NoLogHistory EXCEPT !.messages = logHistory.messages + 1,
                                          !.offlines = logHistory.offlines]
    /\ UNCHANGED <<logEventSource, logRetryTimers, onlineTimers, wasOffline, logFrame>>

\* part_002:3307-3325  onerror
LogError ==
    /\ logEventSource = "live"
    /\ logEventSource' = "null"
    /\ IF ShouldRetry(logStreamRetryCount)
       THEN /\ logStreamRetryCount' = logStreamRetryCount + 1
            /\ logRetryTimers' = logRetryTimers + 1
            /\ logHistory' = [logHistory EXCEPT
                  !.failed = TRUE,
                  !.retries = @ + 1,
                  !.delays = Append(@, RetryDelay(logStreamRetryCount + 1)),
                  !.lastError = [countBefore |-> logStreamRetryCount, scheduled |-> TRUE]]
       ELSE /\ logHistory' = [logHistory EXCEPT
                  !.failed = TRUE,
                  !.lastError = [countBefore |-> logStreamRetryCount, scheduled |-> FALSE]]
            /\ UNCHANGED <<logStreamRetryCount, logRetryTimers>>
    /\ UNCHANGED <<onlineTimers, wasOffline, logFrame>>

\* part_002:3319-3321  the timer of onerror fires
LogRetryTimerFires ==
    /\ logRetryTimers > 0
    /\ logRetryTimers' = logRetryTimers - 1
    /\ connectToLogStream
    /\ UNCHANGED <<logStreamRetryCount, onlineTimers, wasOffline, logFrame>>

\* part_002:620-622  handleOffline
WentOffline ==
    /\ ~wasOffline
    /\ logHistory.offlines < MaxOfflines
    /\ wasOffline' = TRUE
    /\ logHistory' = [logHistory EXCEPT !.offlines = @ + 1]
    /\ UNCHANGED <<logEventSource, logStreamRetryCount, logRetryTimers, onlineTimers,
                   logFrame>>

\* part_002:589-617  handleOnline
CameOnline ==
    /\ wasOffline
    /\ wasOffline' = FALSE
    /\ onlineTimers' = IF logEventSource = "null" THEN onlineTimers + 1 ELSE onlineTimers
    /\ UNCHANGED <<logEventSource, logStreamRetryCount, logRetryTimers, logHistory,
                   logFrame>>

\* part_002:614  the timer of handleOnline fires
OnlineTimerFires ==
    /\ onlineTimers > 0
    /\ onlineTimers' = onlineTimers - 1
    /\ connectToLogStream
    /\ UNCHANGED <<logStreamRetryCount, logRetryTimers, wasOffline, logFrame>>

LogInit ==
    /\ call = NewCall(0, 1000, 0)
    /\ DebounceInit
    /\ LoadInit
    /\ filterInputs = NoFilterInputs
    /\ FilterIdle
    /\ LazyIdle
    /\ MoreIdle

\* the stream and the network monitor
LogNext ==
    \/ LogMessage
    \/ LogError
    \/ LogRetryTimerFires
    \/ WentOffline
    \/ CameOnline
    \/ OnlineTimerFires

SpecLog == LogInit /\ [][LogNext]_vars

\* C25 as stated: after the log stream has failed, at most 3 reconnection
\* attempts are made without a message received in between, and after the
\* third consecutive failed attempt no further reconnection is scheduled.
C25_AtMostThreeReconnects ==
    /\ logHistory.reconnects <= MAX_LOG_STREAM_RETRIES
    /\ (logStreamRetryCount = MAX_LOG_STREAM_RETRIES /\ logRetryTimers = 0
            /\ logEventSource = "null")
          => onlineTimers = 0

\* C25 amended: the error handler of the stream schedules at most 3
\* reconnections without a message received in between, and an error that
\* follows the third schedules none.
C25_ErrorHandlerRetriesThrice ==
    /\ logHistory.retries <= MAX_LOG_STREAM_RETRIES
    /\ logHistory.lastError.countBefore >= MAX_LOG_STREAM_RETRIES
          => ~logHistory.lastError.scheduled

C25_Witness ==
    /\ logHistory.retries = MAX_LOG_STREAM_RETRIES
    /\ logHistory.lastError.countBefore = MAX_LOG_STREAM_RETRIES
    /\ ~logHistory.lastError.scheduled
    /\ logRetryTimers = 0
    /\ logHistory.messages > 0

\* C26: the delays before successive reconnection attempts grow
\* exponentially: each delay is twice the one before.
C26_DelaysDouble ==
    \A i \in 2..Len(logHistory.delays) :
        logHistory.delays[i] = 2 * logHistory.delays[i - 1]

(***************************************************************************)
(* The last used selection: saveLastUsedState (part_002:3894),             *)
(* restoreLastState (3915) and checkAndRestoreLastState (3985).  The three *)
(* are local functions of setupEventListeners and nothing in it calls      *)
(* saveLastUsedState or checkAndRestoreLastState: the actions below apply  *)
(* them directly, next to the loads and the page start, which do not.      *)
(* There is one country, and it lists every source.                        *)
(***************************************************************************)
LAST_STATE_MAX_AGE == 24 * 60 * 60 * 1000
ClockStep == 24 * 60 * 60 * 1000
MaxClockSteps == 2
MaxLastLoads == 1
MaxPageStarts == 1
MaxChecks == 1
Countries == {"CL"}

\* what the actions of this part leave alone
lastFrame == <<retryVars, debounceVars, filterRuns, requests, artifacts,
               batchProcessCancelled, batchModal, downloadHandlers, lazyVars, cacheVars,
               exportVars, healthVars, logVars, returnVars, sideVars>>

\* the page as these functions see it
Browser ==
    [load |-> State,
     storage |-> localStorageLastState,
     country |-> countrySelectValue,
     marks |-> cachedOptionMarks,
     offers |-> contextOffers]

BrowserCommit(b) ==
    /\ Commit(b.load)
    /\ localStorageLastState' = b.storage
    /\ countrySelectValue' = b.country
    /\ cachedOptionMarks' = b.marks
    /\ contextOffers' = b.offers

\* part_002:3246-3248  option.textContent: the name, and the mark of a cached source
OptionText(s, marks) == [name |-> s, cached |-> s \in marks]

\* part_002:3901  blobSelect.options[blobSelect.selectedIndex]?.text
SelectedText(st, marks) ==
    IF st.blobSelectValue = NoSource THEN [name |-> NoSource, cached |-> FALSE]
    ELSE OptionText(st.blobSelectValue, marks)

\* part_002:3894-3910
saveLastUsedState(b, clock) ==
    IF b.load.currentBlobDisplayName = NoSource THEN b
    ELSE [b EXCEPT !.storage =
             [stored |-> TRUE,
              country |-> b.country,
              source |-> b.load.currentBlobDisplayName,
              sourceDisplayName |-> SelectedText(b.load, b.marks),
              timestamp |-> clock]]

\* plausible slip: a stale entry is passed over and left in localStorage
restoreLastState_KeepsStale(b, clock) ==
    LET lastState == b.storage
        age == clock - lastState.timestamp
    IN
    IF ~lastState.stored THEN b
    ELSE IF age > LAST_STATE_MAX_AGE THEN b
    ELSE [b EXCEPT !.offers = @ \cup {lastState}]

\* part_002:3403-3432  the change handler of countrySelect
countryChanged(b, c) ==
    [b EXCEPT !.country = c,
              !.marks = {s \in Sources : b.load.dataSourceCache[s] /= NoEntry},
              !.load = [b.load EXCEPT !.blobSelectValue = NoSource,
                                      !.currentBlobDisplayName = NoSource,
                                      !.dataTable = EmptyTable]]

\* part_002:3434-3500  the change handler of blobSelect
blobSelectChanged(st, s) ==
    [clearManualFilterInputs(st) EXCEPT !.blobSelectValue = s,
                                        !.currentBlobDisplayName = s,
                                        !.dataTable = EmptyTable]

\* part_002:3943-3965  the callback of the offer's action
continueCallback(b, lastState, outcome) ==
    LET b1 == IF b.country /= lastState.country THEN countryChanged(b, lastState.country)
              ELSE b
        found == {s \in Sources : OptionText(s, b1.marks) = lastState.sourceDisplayName}
    IN
    IF found = {} THEN b1
    ELSE LET sourceOption == CHOOSE s \in found : TRUE IN
         [b1 EXCEPT !.load = handleDataLoad(blobSelectChanged(b1.load, sourceOption), outcome)]

\* plausible slip: the stored selection is applied at once instead of offered
restoreLastState_AutoApply(b, clock) ==
    LET lastState == b.storage
        age == clock - lastState.timestamp
    IN
    IF ~lastState.stored THEN b
    ELSE IF age > LAST_STATE_MAX_AGE THEN [b EXCEPT !.storage = NoStored]
    ELSE continueCallback(b, lastState, "ok")

\* part_002:3915-3980
restoreLastState(b, clock) ==
    LET lastState == b.storage
        age == clock - lastState.timestamp
    IN
    IF ~lastState.stored THEN b
    ELSE IF age > LAST_STATE_MAX_AGE THEN [b EXCEPT !.storage = NoStored]
    ELSE [b EXCEPT !.offers = @ \cup {lastState}]

\* part_002:3989, 3994  no data is loaded
NoDataLoaded(st) ==
    \/ st.currentBlobDisplayName = NoSource
    \/ \A s \in Sources : st.dataSourceCache[s] = NoEntry

\* saveLastUsedState() is applied
SaveLastUsedStateCalled ==
    /\ BrowserCommit(saveLastUsedState(Browser, lsClock))
    /\ UNCHANGED <<lsClock, lastStateTimers, lastHistory, lastFrame>>

\* part_002:3985-3998  checkAndRestoreLastState() is applied
CheckAndRestoreLastStateCalled ==
    /\ lastHistory.checks < MaxChecks
    /\ lastHistory' = [lastHistory EXCEPT !.checks = @ + 1]
    /\ lastStateTimers' = IF NoDataLoaded(State) THEN lastStateTimers + 1
                          ELSE lastStateTimers
    /\ UNCHANGED <<lsClock, localStorageLastState, countrySelectValue, cachedOptionMarks,
                   contextOffers, loadVars, filterInputs, lastFrame>>

\* part_002:3991-3997  its timer fires after 3 seconds
LastStateTimerFires ==
    /\ lastStateTimers > 0
    /\ lastStateTimers' = lastStateTimers - 1
    /\ IF NoDataLoaded(State)
       THEN LET b == restoreLastState(Browser, lsClock)
                lastState == localStorageLastState
            IN
            /\ BrowserCommit(b)
            /\ lastHistory' = [lastHistory EXCEPT !.lastRestore =
                  [ran |-> TRUE,
                   stale |-> lastState.stored
                                /\ lsClock - lastState.timestamp > LAST_STATE_MAX_AGE,
                   offered |-> lastState \in b.offers,
                   removed |-> ~b.storage.stored,
                   lastState |-> lastState]]
       ELSE UNCHANGED <<localStorageLastState, countrySelectValue, cachedOptionMarks,
                        contextOffers, loadVars, filterInputs, lastHistory>>
    /\ UNCHANGED <<lsClock, lastFrame>>

\* part_002:253-259, 3943-3965  the user clicks the action of an offer
ContinueClicked ==
    /\ Len(loads) < MaxLastLoads
    /\ restoreTimers = {}
    /\ \E lastState \in contextOffers, outcome \in RestoreOutcomes :
          BrowserCommit([continueCallback(Browser, lastState, outcome)
                            EXCEPT !.offers = @ \ {lastState}])
    /\ lastHistory' = [lastHistory EXCEPT !.continueClicks = @ + 1]
    /\ UNCHANGED <<lsClock, lastStateTimers, lastFrame>>

\* part_002:246-249, 265-269  an offer is closed, or removed after 10 seconds
OfferRemoved ==
    /\ \E lastState \in contextOffers : contextOffers' = contextOffers \ {lastState}
    /\ UNCHANGED <<lsClock, localStorageLastState, countrySelectValue, cachedOptionMarks,
                   lastStateTimers, lastHistory, loadVars, filterInputs, lastFrame>>

\* the user picks a country
CountrySelected ==
    /\ restoreTimers = {}
    /\ \E c \in Countries :
          /\ c /= countrySelectValue
          /\ BrowserCommit(countryChanged(Browser, c))
    /\ UNCHANGED <<lsClock, lastStateTimers, lastHistory, lastFrame>>

\* the user picks a source of the country
LastSourceSelected ==
    /\ restoreTimers = {}
    /\ countrySelectValue /= ""
    /\ \E s \in Sources :
          /\ s /= blobSelectValue
          /\ Commit(blobSelectChanged(State, s))
    /\ UNCHANGED <<lastVars, lastFrame>>

\* the user clicks the load button
LastLoadRequested ==
    /\ Len(loads) < MaxLastLoads
    /\ restoreTimers = {}
    /\ currentBlobDisplayName /= NoSource \/ blobSelectValue /= NoSource
    /\ \E outcome \in RestoreOutcomes : Commit(handleDataLoad(State, outcome))
    /\ lastHistory' = [lastHistory EXCEPT !.loadClicks = @ + 1]
    /\ UNCHANGED <<lsClock, localStorageLastState, countrySelectValue, cachedOptionMarks,
                   contextOffers, lastStateTimers, lastFrame>>

\* a day passes; what was pending on the page has happened long before
ClockAdvances ==
    /\ lsClock < MaxClockSteps * ClockStep
    /\ AllLoadsEnded
    /\ saveTimers = {}
    /\ lastStateTimers = 0
    /\ contextOffers = {}
    /\ lsClock' = lsClock + ClockStep
    /\ UNCHANGED <<localStorageLastState, countrySelectValue, cachedOptionMarks,
                   contextOffers, lastStateTimers, lastHistory, loadVars, filterInputs,
                   lastFrame>>

\* the sources this page has loaded
LoadedSources == {loads[q].target : q \in {r \in 1..Len(loads) : loads[r].pc = "done"}}

\* the page is closed and opened again: localStorage is all that stays
PageStarts ==
    /\ lastHistory.pageStarts < MaxPageStarts
    /\ currentBlobDisplayName' = NoSource
    /\ blobSelectValue' = NoSource
    /\ dataSourceCache' = [s \in Sources |-> NoEntry]
    /\ viewStateCache' = [s \in Sources |-> NoSnapshot]
    /\ abortController' = 0
    /\ isLoading' = FALSE
    /\ dataTable' = EmptyTable
    /\ saveTimers' = {}
    /\ loads' = <<>>
    /\ restoreTimers' = {}
    /\ filterInputs' = NoFilterInputs
    /\ countrySelectValue' = ""
    /\ cachedOptionMarks' = {}
    /\ contextOffers' = {}
    /\ lastStateTimers' = 0
    /\ lastHistory' = [NoLastHistory EXCEPT
          !.pageStarts = lastHistory.pageStarts + 1,
          !.sessionStart = lsClock,
          !.prev = [source |-> IF Cardinality(LoadedSources) = 1
                               THEN CHOOSE s \in LoadedSources : TRUE ELSE NoSource,
                    fresh |-> lsClock - lastHistory.sessionStart < LAST_STATE_MAX_AGE]]
    /\ UNCHANGED <<lsClock, localStorageLastState, lastFrame>>

LastStateInit ==
    /\ call = NewCall(0, 1000, 0)
    /\ DebounceInit
    /\ LoadInit
    /\ LaterInit

LastStateNext ==
    \/ CountrySelected
    \/ LastSourceSelected
    \/ LastLoadRequested
    \/ SettingsCallEnds
    \/ DataCallEnds
    \/ FilterVisibilityResolved
    \/ FilterResponse
    \/ SaveViewTimerFires
    \/ SaveLastUsedStateCalled
    \/ CheckAndRestoreLastStateCalled
    \/ LastStateTimerFires
    \/ ContinueClicked
    \/ OfferRemoved
    \/ ClockAdvances
    \/ PageStarts

SpecLastState == LastStateInit /\ [][LastStateNext]_vars

\* C27: a stored last-used selection never causes a load by itself: a load
\* starts only on a click of the user, on the load button or on the action of
\* the offer.
C27_NoLoadWithoutClick ==
    Len(loads) <= lastHistory.loadClicks + lastHistory.continueClicks

C27_Witness ==
    /\ lastHistory.pageStarts = 1
    /\ lastHistory.lastRestore.offered
    /\ lastHistory.continueClicks = 1
    /\ lastHistory.loadClicks = 0
    /\ Len(loads) = 1
    /\ loads[1].target = lastHistory.lastRestore.lastState.source

\* C28: if a source was loaded less than 24 hours before the page starts, its
\* selection was recorded with a timestamp in localStorage, and that start
\* offers the continue action for exactly that selection.
C28_RecentLoadIsOffered ==
    (lastHistory.pageStarts > 0 /\ lastHistory.prev.fresh
        /\ lastHistory.prev.source /= NoSource)
    => /\ localStorageLastState.stored \/ lastHistory.lastRestore.removed
       /\ lastHistory.lastRestore.ran =>
             /\ lastHistory.lastRestore.offered
             /\ lastHistory.lastRestore.lastState.source = lastHistory.prev.source

RequestsSent(rs) == Len(Concat(rs))

\* the request of run r failed in this step
ApplyFails(r) ==
    /\ filterRuns[r].pc = "filterWait"
    /\ filterRuns'[r].pc = "failed"

\* C30: a filter apply whose request fails with a network or server error has
\* sent exactly that one filter request: the error is surfaced, and the
\* failure neither sends a request again nor starts another apply.
C30_FailedApplyIsNotRetried ==
    /\ [](\A r \in 1..Len(filterRuns) :
            (filterRuns[r].pc = "failed" /\ filterRuns[r].error = "http")
            => /\ Len(requests[r]) = 1
               /\ requests[r][1].kind = "filter"
               /\ requests[r][1].chunk = 0)
    /\ [][\A r \in 1..Len(filterRuns) :
            ApplyFails(r) => /\ filterRuns'[r].error = "http"
                             /\ Len(filterRuns') = Len(filterRuns)
                             /\ RequestsSent(requests') = RequestsSent(requests)]_vars

C30_Witness ==
    \E r \in 1..Len(filterRuns) :
        /\ filterRuns[r].pc = "failed"
        /\ filterRuns[r].error = "http"
        /\ Len(requests[r]) = 1
        /\ Len(filterRuns) = r

(***************************************************************************)
(* Properties of the later sitting: concurrency of the parts above         *)
(***************************************************************************)
\* C35: init() runs at most once per page load, however many probes are in
\* flight at the same time and however many of them succeed.
C35_InitAtMostOnce == initCalls <= 1

\* the loads that have not ended
RunningLoads == {p \in 1..Len(loads) : loads[p].pc \notin Terminal}

\* C32: the loading flag is true exactly while some data load is in flight:
\* it is not false while a started load is still running, and it is not true
\* once the last running load has ended.
C32_LoadingFlagTracksLoads == isLoading <=> (RunningLoads /= {})

\* C39: while a data load is in flight, the abort controller held in the
\* store is the controller of the most recently started load.
C39_StoreHoldsNewestController ==
    (Len(loads) > 0 /\ loads[Len(loads)].pc \notin Terminal)
        => abortController = Len(loads)

\* C40: every snapshot stored under source name S was captured while S was
\* the current source: the application state saved in it names S as the
\* current source and its markup is the view of S.
C40_SnapshotIsOfItsSource ==
    \A s \in Sources :
        viewStateCache[s].saved =>
            /\ viewStateCache[s].appState.currentBlobDisplayName = s
            /\ viewStateCache[s].tableHTML.src = s

(***************************************************************************)
(* Leaving a source and returning to it                                    *)
(***************************************************************************)
MaxReturnLoads == 2

\* what these actions leave alone
returnFrame == <<retryVars, debounceVars, filterRuns, requests, artifacts,
                 batchProcessCancelled, batchModal, downloadHandlers, lazyVars, cacheVars,
                 exportVars, healthVars, logVars, lastVars, sideVars>>

\* part_002:3434-3513  the user picks another source: the table and the
\* filter fields shown for the current one are the view they leave
SourceLeft ==
    /\ restoreTimers = {}
    /\ AllLoadsEnded
    /\ \E s \in Sources :
          /\ s /= blobSelectValue
          /\ Commit(blobSelectChanged(State, s))
    /\ leftViews' = IF dataTable.src = NoSource \/ dataTable.src /= currentBlobDisplayName
                    THEN leftViews
                    ELSE [leftViews EXCEPT ![currentBlobDisplayName] =
                            [left |-> TRUE, dataTable |-> dataTable,
                             filterInputs |-> filterInputs]]
    /\ UNCHANGED <<lastReturn, returnFrame>>

\* part_002:2068-2102  the user clicks load, after the load before it has ended
ReturnLoadRequested ==
    /\ Len(loads) < MaxReturnLoads
    /\ AllLoadsEnded
    /\ restoreTimers = {}
    /\ saveTimers = {}
    /\ currentBlobDisplayName /= NoSource \/ blobSelectValue /= NoSource
    /\ \E outcome \in RestoreOutcomes :
          LET st == handleDataLoad(State, outcome)
              p  == Len(st.loads)
          IN
          /\ Commit(st)
          /\ lastReturn' = IF st.loads[p].pc = "restored"
                           THEN [load |-> p, view |-> leftViews[st.loads[p].target]]
                           ELSE lastReturn
          /\ leftViews' = [leftViews EXCEPT ![st.loads[p].target] = NeverLeft]
    /\ UNCHANGED returnFrame

ReturnNext ==
    \/ SourceLeft
    \/ ReturnLoadRequested
    \/ SettingsCallEnds
    \/ DataCallEnds
    \/ FilterVisibilityResolved
    \/ FilterResponse
    \/ SaveViewTimerFires
    \/ RestoreTimerFires
    \/ FilterInputTyped

SpecReturn == Init /\ [][ReturnNext]_vars

\* C36: when the user returns to a previously loaded source S, the restored
\* view shows the filters and rows that were displayed for S when the user
\* last left it.
C36_RestoredViewIsTheOneLeft ==
    LET p == lastReturn.load IN
    (p /= 0 /\ loads[p].restoreFinished /\ lastReturn.view.left)
        => /\ loads[p].tableAfterRestore = lastReturn.view.dataTable
           /\ loads[p].inputsAfterRestore = lastReturn.view.filterInputs

\* C33: once the user has cancelled a batch run, that run sends no further
\* chunk filter request and no further export request, whatever happens
\* afterwards (another batch run started, its download button clicked).
C33_CancelledRunSendsNothing ==
    \A r \in 1..Len(filterRuns) :
        filterRuns[r].sentAtCancel /= NotCancelled
            => Len(requests[r]) = filterRuns[r].sentAtCancel

\* C34: during lazy rendering, also when the sentinel triggers again while
\* an earlier chunk load is in flight, the rendered rows are a prefix of the
\* result in its order (so no row index is rendered twice) and there are
\* never more of them than the result has rows.
C34_RenderedRowsArePrefix ==
    /\ tableRows = DataSlice(0, Len(tableRows))
    /\ Len(tableRows) <= totalRows

\* C31: what is displayed for the current source is the result of the most
\* recently issued filter request that was answered: the answer to an earlier
\* apply that arrives after the answer to a later apply does not replace it.
C31_LatestAnswerStaysDisplayed ==
    \A q \in 1..Len(filterRuns), r \in 1..Len(filterRuns) :
        (q < r /\ filterRuns[r].pc = "done") => ~filterRuns[q].displayed

(***************************************************************************)
(* The launcher page: LauncherApp of launcher_web/static/js/launcher.js.   *)
(* UIComponents, LauncherAPI and the launcher backend are not among the    *)
(* sources: setServerRunning and setServerStopped set ui.state.            *)
(* serverRunning, which toggleServer and the status poll read; the backend *)
(* answers a status call with whether the main server runs, and starts or  *)
(* stops it when it answers a start or stop call with success.             *)
(***************************************************************************)
MaxToggles == 2
MaxStatusPolls == 2
MaxUptimePolls == 2

launcherFrame == <<retryVars, debounceVars, loadVars, filterVars, lazyVars, cacheVars,
                   exportVars, healthVars, logVars, lastVars, returnVars, authVars>>

\* The state the handlers of LauncherApp work on, written back by LauncherCommit.
Launcher ==
    [uptimePollInterval |-> uptimePollInterval,
     serverRunning      |-> serverRunning,
     activeIntervals    |-> activeIntervals,
     launcherHistory    |-> launcherHistory]

LauncherCommit(st) ==
    /\ uptimePollInterval' = st.uptimePollInterval
    /\ serverRunning'      = st.serverRunning
    /\ activeIntervals'    = st.activeIntervals
    /\ launcherHistory'    = st.launcherHistory

\* launcher.js:141-167  the interval is set and its id stored; an id stored
\* before is overwritten
startServerMonitoring(st) ==
    LET id == st.launcherHistory.intervalsSet + 1 IN
    [st EXCEPT !.uptimePollInterval = id,
               !.activeIntervals = @ \cup {id},
               !.launcherHistory.intervalsSet = id,
               !.launcherHistory.monitoring = TRUE]

\* launcher.js:172-179
stopServerMonitoring(st) ==
    LET st1 == [st EXCEPT !.launcherHistory.monitoring = FALSE] IN
    IF st.uptimePollInterval /= 0
    THEN [st1 EXCEPT !.activeIntervals = @ \ {st.uptimePollInterval},
                     !.uptimePollInterval = 0]
    ELSE st1

\* launcher.js:119-131  the body of the status poll, given status.running
statusPolled(st, running) ==
    IF running /\ ~st.serverRunning
    THEN startServerMonitoring([st EXCEPT !.serverRunning = TRUE])
    ELSE IF ~running /\ st.serverRunning
    THEN stopServerMonitoring([st EXCEPT !.serverRunning = FALSE])
    ELSE st

\* launcher.js:199-211  startServer after its call, given result.success
serverStarted(st, success) ==
    IF success THEN startServerMonitoring([st EXCEPT !.serverRunning = TRUE]) ELSE st

\* launcher.js:229-237  stopServer after its call, given result.success
serverStopped(st, success) ==
    IF success THEN stopServerMonitoring([st EXCEPT !.serverRunning = FALSE]) ELSE st

ToggleCalls == {c \in launcherCalls : c.kind \in {"start", "stop"}}
StatusCalls == {c \in launcherCalls : c.kind = "status"}

\* launcher.js:23-36, 88-109, 114  init(): the initial state is loaded, then
\* the status interval is set
LauncherStarts ==
    /\ ~statusPollInterval
    /\ statusPollInterval' = TRUE
    /\ LauncherCommit(IF mainServerRunning
                      THEN startServerMonitoring([Launcher EXCEPT !.serverRunning = TRUE])
                      ELSE Launcher)
    /\ UNCHANGED <<launcherCalls, mainServerRunning, launcherFrame>>

\* launcher.js:116-118  the 5 s interval fires: a status call is sent
StatusIntervalFires ==
    /\ statusPollInterval
    /\ StatusCalls = {}
    /\ launcherHistory.statusPolls < MaxStatusPolls
    /\ launcherCalls' = launcherCalls \cup {[kind |-> "status", phase |-> "sent", result |-> FALSE]}
    /\ launcherHistory' = [launcherHistory EXCEPT !.statusPolls = @ + 1]
    /\ UNCHANGED <<statusPollInterval, uptimePollInterval, serverRunning, activeIntervals,
                   mainServerRunning, launcherFrame>>

\* launcher.js:184-199, 225-229  a click on the start/stop button, the loading
\* overlay of the call before it gone: toggleServer up to its call
ToggleClicked ==
    /\ statusPollInterval
    /\ ToggleCalls = {}
    /\ launcherHistory.toggles < MaxToggles
    /\ launcherCalls' = launcherCalls \cup
            {[kind |-> IF serverRunning THEN "stop" ELSE "start",
              phase |-> "sent", result |-> FALSE]}
    /\ launcherHistory' = [launcherHistory EXCEPT !.toggles = @ + 1]
    /\ UNCHANGED <<statusPollInterval, uptimePollInterval, serverRunning, activeIntervals,
                   mainServerRunning, launcherFrame>>

\* the backend handles a call and sends its answer
BackendAnswers ==
    \E c \in launcherCalls, ok \in BOOLEAN :
        /\ c.phase = "sent"
        /\ LET result == IF c.kind = "status" THEN mainServerRunning ELSE ok IN
           /\ c.kind = "status" => ok
           /\ launcherCalls' = (launcherCalls \ {c}) \cup
                                  {[c EXCEPT !.phase = "answered", !.result = result]}
           /\ mainServerRunning' = IF c.kind = "start" /\ ok THEN TRUE
                                   ELSE IF c.kind = "stop" /\ ok THEN FALSE
                                   ELSE mainServerRunning
        /\ UNCHANGED <<statusPollInterval, uptimePollInterval, serverRunning, activeIntervals,
                       launcherHistory, launcherFrame>>

\* the answer to a call arrives and the code after the await runs
CallReturns ==
    \E c \in launcherCalls :
        /\ c.phase = "answered"
        /\ launcherCalls' = launcherCalls \ {c}
        /\ LauncherCommit(IF c.kind = "status" THEN statusPolled(Launcher, c.result)
                          ELSE IF c.kind = "start" THEN serverStarted(Launcher, c.result)
                          ELSE serverStopped(Launcher, c.result))
        /\ UNCHANGED <<statusPollInterval, mainServerRunning, launcherFrame>>

\* launcher.js:157-166  an uptime interval that is set fires: a status call is
\* sent, whose answer only updates the uptime shown
UptimeIntervalFires ==
    /\ activeIntervals /= {}
    /\ launcherHistory.uptimePolls < MaxUptimePolls
    /\ launcherHistory' = [launcherHistory EXCEPT
                              !.uptimePolls = @ + 1,
                              !.strayPoll = @ \/ ~launcherHistory.monitoring]
    /\ UNCHANGED <<statusPollInterval, uptimePollInterval, serverRunning, activeIntervals,
                   launcherCalls, mainServerRunning, launcherFrame>>

LauncherInit ==
    /\ call = NewCall(0, 1000, 0)
    /\ DebounceInit
    /\ LoadInit
    /\ filterInputs = NoFilterInputs
    /\ FilterIdle
    /\ LazyIdle
    /\ MoreIdle

LauncherNext ==
    \/ LauncherStarts
    \/ StatusIntervalFires
    \/ ToggleClicked
    \/ BackendAnswers
    \/ CallReturns
    \/ UptimeIntervalFires

SpecLauncher == LauncherInit /\ [][LauncherNext]_vars

\* C37: in the launcher at most one uptime interval is set at any time, and
\* once monitoring has been stopped no uptime poll is issued until monitoring
\* is started again, however the status polls interleave with the start and
\* stop requests.
C37_OneUptimeTimer ==
    /\ Cardinality(activeIntervals) <= 1
    /\ ~launcherHistory.strayPoll

(***************************************************************************)
(* The page of prod_peru: the session handling of                          *)
(* FlexStart/apps/prod_peru/frontend/js/script.js.  null is written "".    *)
(* A request in flight keeps the token of its Authorization header.        *)
(***************************************************************************)
MaxPageLoads == 3
MaxSends == 3

authFrame == <<retryVars, debounceVars, loadVars, filterVars, lazyVars, cacheVars,
               exportVars, healthVars, logVars, lastVars, returnVars, launcherVars>>

\* what the server sets in auth_token and auth_user, and data.user of /api/auth/me
AuthTokens == {"t1", "t2"}
AuthUsers == {"u"}

\* the query string the page is opened with
UrlParams ==
    [auth_token : AuthTokens \cup {""}, auth_user : AuthUsers \cup {""},
     auth_error : BOOLEAN]

\* The state the functions of the page work on, written back by AuthCommit.
Auth ==
    [authToken |-> authToken,
     currentUser |-> currentUser,
     isAuthenticated |-> isAuthenticated,
     authStorage |-> authStorage,
     authCalls |-> authCalls,
     authPage |-> authPage,
     authHistory |-> authHistory]

AuthCommit(st) ==
    /\ authToken' = st.authToken
    /\ currentUser' = st.currentUser
    /\ isAuthenticated' = st.isAuthenticated
    /\ authStorage' = st.authStorage
    /\ authCalls' = st.authCalls
    /\ authPage' = st.authPage
    /\ authHistory' = st.authHistory
    /\ UNCHANGED authFrame

\* plausible slip: the stored user is left behind
clearAuthData_KeepsStoredUser(st) ==
    [st EXCEPT !.authStorage.token = "",
               !.authToken = "",
               !.currentUser = "",
               !.isAuthenticated = FALSE]

\* script.js:99-105
clearAuthData(st) ==
    [st EXCEPT !.authStorage = NoStoredAuth,
               !.authToken = "",
               !.currentUser = "",
               !.isAuthenticated = FALSE]

\* script.js:59-65, 108-165  the modal is shown and setupEventListeners runs
showAuthModal(st) == [st EXCEPT !.authPage.listeners = TRUE]

\* fetch(url, {headers: {'Authorization': `Bearer ${authToken}`}})
SendAuthorized(st, kind) ==
    LET id == st.authHistory.sends + 1 IN
    [st EXCEPT !.authCalls = @ \cup {[kind |-> kind, token |-> st.authToken, id |-> id]},
               !.authHistory.sends = id]

\* a document that has just been loaded: the script starts from its initial
\* values and the requests of the document before it are gone
FreshPage(st) ==
    [st EXCEPT !.authToken = "",
               !.currentUser = "",
               !.isAuthenticated = FALSE,
               !.authCalls = {},
               !.authPage = [started |-> TRUE, listeners |-> FALSE, mainContent |-> FALSE],
               !.authHistory.loads = @ + 1,
               !.authHistory.last = "load"]

\* script.js:16-57, 67-75  initializeApp up to the await in restoreSession
initializeApp(st0, params) ==
    LET st == FreshPage(st0) IN
    IF params.auth_error THEN showAuthModal(st)
    ELSE LET st1 == IF params.auth_token /= "" /\ params.auth_user /= ""
                    THEN [st EXCEPT !.authStorage = [token |-> params.auth_token,
                                                     user |-> params.auth_user]]
                    ELSE st
             savedToken == st1.authStorage.token
             savedUser  == st1.authStorage.user
         IN IF savedToken /= "" /\ savedUser /= ""
            THEN SendAuthorized([st1 EXCEPT !.authToken = savedToken], "me")
            ELSE showAuthModal(st1)

\* script.js:76-96, 50-56  restoreSession after the await, and what
\* initializeApp does with its result; outcome "ok" is a 200 answer with
\* success and a user, "denied" another answer, "error" a rejected fetch
restoreSession(st, user, outcome) ==
    IF outcome = "ok"
    THEN [st EXCEPT !.currentUser = user,
                    !.isAuthenticated = TRUE,
                    !.authPage.mainContent = TRUE,
                    !.authPage.listeners = TRUE,
                    !.authHistory.last = "restored"]
    ELSE showAuthModal([clearAuthData(st) EXCEPT !.authHistory.last = "restoreFailed"])

\* script.js:256-270  authenticatedFetch up to its await
authenticatedFetch(st) ==
    IF st.authToken = "" THEN st ELSE SendAuthorized(st, "api")

\* script.js:284-310 (and 339, 415, 484)  a form handler up to its request
handleDeclaration(st) ==
    IF ~st.isAuthenticated \/ st.currentUser = "" THEN st ELSE authenticatedFetch(st)

\* script.js:272-281  authenticatedFetch after the await
fetchAnswered(st, status) ==
    IF status = 401
    THEN showAuthModal([clearAuthData(st) EXCEPT !.authPage.mainContent = FALSE,
                                                 !.authHistory.last = "unauthorized"])
    ELSE st

\* script.js:224-252  handleLogout after the logout request: the data is
\* cleared and the page reloaded
logoutDone(st) ==
    initializeApp(clearAuthData(st),
                  [auth_token |-> "", auth_user |-> "", auth_error |-> FALSE])

\* script.js:208-222  handleLogout up to its await
handleLogout(st) ==
    IF st.authToken /= "" THEN SendAuthorized(st, "logout") ELSE logoutDone(st)

\* the page is opened, reloaded, or reached from the login redirect
PageLoads ==
    /\ authHistory.loads < MaxPageLoads
    /\ \E params \in UrlParams : AuthCommit(initializeApp(Auth, params))

\* the answer to /api/auth/me
RestoreAnswered ==
    \E c \in authCalls, user \in AuthUsers, outcome \in {"ok", "denied", "error"} :
        /\ c.kind = "me"
        /\ AuthCommit(restoreSession([Auth EXCEPT !.authCalls = @ \ {c}], user, outcome))

\* the user submits one of the forms
FormSubmitted ==
    /\ authPage.listeners
    /\ authHistory.sends < MaxSends
    /\ AuthCommit(handleDeclaration(Auth))

\* the answer to a request of authenticatedFetch; 0 stands for a rejected fetch
FetchAnswered ==
    \E c \in authCalls, status \in {0, 200, 401, 500} :
        /\ c.kind = "api"
        /\ AuthCommit(fetchAnswered([Auth EXCEPT !.authCalls = @ \ {c}], status))

\* the user clicks logout
LogoutClicked ==
    /\ authPage.listeners
    /\ authHistory.loads < MaxPageLoads
    /\ authHistory.sends < MaxSends
    /\ AuthCommit(handleLogout(Auth))

\* the logout request was answered or failed
LogoutAnswered ==
    \E c \in authCalls :
        /\ c.kind = "logout"
        /\ AuthCommit(logoutDone(Auth))

AuthInit ==
    /\ call = NewCall(0, 1000, 0)
    /\ DebounceInit
    /\ LoadInit
    /\ filterInputs = NoFilterInputs
    /\ FilterIdle
    /\ LazyIdle
    /\ MoreIdle

AuthNext ==
    \/ PageLoads
    \/ RestoreAnswered
    \/ FormSubmitted
    \/ FetchAnswered
    \/ LogoutClicked
    \/ LogoutAnswered

SpecAuth == AuthInit /\ [][AuthNext]_vars

\* C38: after a 401 answer to an authenticated request, and after a failed
\* session restore, the client is fully unauthenticated: the token, the user
\* and the authenticated flag in memory are cleared and both stored keys are
\* removed; and no request that carries the token is sent while the token in
\* memory is absent.
C38_UnauthenticatedAfterRejection ==
    /\ authHistory.last \in {"unauthorized", "restoreFailed"} =>
          /\ authToken = ""
          /\ currentUser = ""
          /\ ~isAuthenticated
          /\ authStorage = NoStoredAuth
    /\ \A c \in authCalls : c.token /= ""

\* a request got 401 and the data was cleared while another request, sent
\* with the token, is still in flight
C38_Witness ==
    /\ authHistory.last = "unauthorized"
    /\ authToken = ""
    /\ \E c \in authCalls : c.kind = "api" /\ c.token /= ""

====
